---- MODULE Spec2Model ----
(***************************************************************************)
(* Model of the repository state engine of alai (src/alai/wal.py): the     *)
(* Version algebra, the in-memory State, and the write-ahead log with its  *)
(* file, its userspace write buffer, replay, close and crash.              *)
(*                                                                         *)
(* Strings that the code parses (package versions) are sequences of        *)
(* one-character strings, so that Version.from_string is modelled by what  *)
(* it does.  Package names are atoms of one character each.                *)
(***************************************************************************)
EXTENDS Integers, Sequences, FiniteSets, TLC

\* ------------------------------------------------------------------------
\* Bounds of the model
\* ------------------------------------------------------------------------

\* Largest number of record lines the file and the write buffer hold together.
MaxRecords == 2

\* Largest number of trailing bytes the file loses in one truncation.
MaxCut == 3

\* ------------------------------------------------------------------------
\* Generic helpers
\* ------------------------------------------------------------------------

Range(s) == {s[i] : i \in 1..Len(s)}

MinOf(S) == CHOOSE x \in S : \A y \in S : x <= y

Bool(b) == IF b THEN "True" ELSE "False"

\* ------------------------------------------------------------------------
\* Characters and Python's int()
\* ------------------------------------------------------------------------

Digits == <<"0", "1", "2", "3", "4", "5", "6", "7", "8", "9">>

\* The characters version strings are made of, in code point order.
Alphabet == <<"+", "-", ".", "0", "1", "2", "3", "4", "5", "6", "7", "8", "9", ":", "a", "b">>

IsDigit(c) == \E i \in 1..10 : Digits[i] = c

DigitVal(c) == (CHOOSE i \in 1..10 : Digits[i] = c) - 1

CharOrd(c) == CHOOSE i \in 1..Len(Alphabet) : Alphabet[i] = c

\* int(s) accepts an optional sign followed by at least one digit.
IsIntStr(s) ==
    LET body == IF s # <<>> /\ s[1] \in {"-", "+"} THEN Tail(s) ELSE s
    IN  body # <<>> /\ \A i \in 1..Len(body) : IsDigit(body[i])

RECURSIVE DigitsVal(_)
DigitsVal(s) ==
    IF s = <<>> THEN 0
    ELSE 10 * DigitsVal(SubSeq(s, 1, Len(s) - 1)) + DigitVal(s[Len(s)])

IntOf(s) ==
    IF s[1] = "-" THEN 0 - DigitsVal(Tail(s))
    ELSE IF s[1] = "+" THEN DigitsVal(Tail(s))
    ELSE DigitsVal(s)

\* Index of the first occurrence of c in s, 0 when there is none.
IndexOf(s, c) ==
    IF \E i \in 1..Len(s) : s[i] = c
    THEN MinOf({i \in 1..Len(s) : s[i] = c})
    ELSE 0

\* str.split(c): the pieces of s between occurrences of c ("" gives [""]).
RECURSIVE SplitOn(_, _)
SplitOn(s, c) ==
    LET i == IndexOf(s, c)
    IN  IF i = 0 THEN <<s>>
        ELSE <<SubSeq(s, 1, i - 1)>> \o SplitOn(SubSeq(s, i + 1, Len(s)), c)

\* str < str: lexicographic by code point, a proper prefix is less.
StrLt(a, b) ==
    LET m == IF Len(a) < Len(b) THEN Len(a) ELSE Len(b)
        D == {i \in 1..m : a[i] # b[i]}
    IN  IF D = {} THEN Len(a) < Len(b)
        ELSE CharOrd(a[MinOf(D)]) < CharOrd(b[MinOf(D)])

\* ------------------------------------------------------------------------
\* Version  (wal.py, class Version)
\* ------------------------------------------------------------------------

\* The absent epoch (None) is the empty sequence, a present epoch e is <<e>>.
NoEpoch == <<>>

\* One component of a version: an int or a str.
Token(ent) ==
    IF IsIntStr(ent) THEN [int |-> TRUE, n |-> IntOf(ent), s |-> <<>>]
    ELSE [int |-> FALSE, n |-> 0, s |-> ent]

VersionError(kind) ==
    [ok |-> FALSE, err |-> kind, epoch |-> NoEpoch, components |-> <<>>, release |-> 0]

\* Version.from_string, with Version.__post_init__ run by the constructor.
from_string(version) ==
    LET ci == IndexOf(version, ":")
        epochStr == SubSeq(version, 1, ci - 1)
        rest == IF ci = 0 THEN version ELSE SubSeq(version, ci + 1, Len(version))
        di == IndexOf(rest, "-")
        upstream == SubSeq(rest, 1, di - 1)
        releaseStr == SubSeq(rest, di + 1, Len(rest))
        ents == SplitOn(upstream, ".")
    IN  IF ci # 0 /\ ~IsIntStr(epochStr) THEN VersionError("ValueError")
        ELSE IF di = 0 THEN VersionError("ValueError")
        ELSE IF ~IsIntStr(releaseStr) THEN VersionError("ValueError")
        ELSE IF IntOf(releaseStr) <= 0 THEN VersionError("RuntimeError")
        ELSE [ok |-> TRUE, err |-> "",
              epoch |-> IF ci = 0 THEN NoEpoch ELSE <<IntOf(epochStr)>>,
              components |-> [i \in 1..Len(ents) |-> Token(ents[i])],
              release |-> IntOf(releaseStr)]

\* Version.__eq__
Version_eq(self, that) ==
    /\ self.epoch = that.epoch
    /\ self.components = that.components
    /\ self.release = that.release

\* x < y for two components: int with int, str with str, TypeError when mixed.
TokenLt(x, y) ==
    IF x.int # y.int THEN "TypeError"
    ELSE IF x.int THEN Bool(x.n < y.n)
    ELSE Bool(StrLt(x.s, y.s))

\* tuple < tuple: the first position where the elements differ decides, a
\* proper prefix is less.
TupleLt(a, b) ==
    LET m == IF Len(a) < Len(b) THEN Len(a) ELSE Len(b)
        D == {i \in 1..m : a[i] # b[i]}
    IN  IF D = {} THEN Bool(Len(a) < Len(b))
        ELSE TokenLt(a[MinOf(D)], b[MinOf(D)])

\* Version.__lt__: "True", "False" or "TypeError".
Version_lt(self, that) ==
    IF self.epoch # NoEpoch /\ that.epoch # NoEpoch /\ self.epoch[1] < that.epoch[1]
    THEN "True"
    ELSE IF self.epoch = NoEpoch /\ that.epoch # NoEpoch THEN "True"
    ELSE IF self.epoch # NoEpoch /\ that.epoch = NoEpoch THEN "False"
    ELSE LET c == TupleLt(self.components, that.components)
         IN  IF c = "False" THEN Bool(self.release < that.release) ELSE c

\* Version.__le__: self < that or self == that.
Version_le(self, that) ==
    LET l == Version_lt(self, that)
    IN  IF l = "False" THEN Bool(Version_eq(self, that)) ELSE l

\* prev_ver >= next_ver: Version has no __ge__, so Python evaluates the
\* reflected next_ver.__le__(prev_ver).
Version_ge(self, that) == Version_le(that, self)

\* str(n) of a natural number: its decimal digits.
RECURSIVE NatStr(_)
NatStr(n) ==
    IF n < 10 THEN <<Digits[n + 1]>>
    ELSE NatStr(n \div 10) \o <<Digits[(n % 10) + 1]>>

\* str(n) of an int
IntStr(n) == IF n < 0 THEN <<"-">> \o NatStr(0 - n) ELSE NatStr(n)

\* sep.join(parts)
RECURSIVE Join(_, _)
Join(parts, sep) ==
    IF parts = <<>> THEN <<>>
    ELSE IF Len(parts) = 1 THEN parts[1]
    ELSE parts[1] \o <<sep>> \o Join(Tail(parts), sep)

\* str(x) of one component
TokenStr(x) == IF x.int THEN IntStr(x.n) ELSE x.s

\* Version.__str__: the epoch is written when it is truthy, that is neither
\* None nor 0.
Version_str(self) ==
    LET components == Join([i \in 1..Len(self.components) |->
                                TokenStr(self.components[i])], ".")
        tail == components \o <<"-">> \o IntStr(self.release)
    IN  IF self.epoch # NoEpoch /\ self.epoch[1] # 0
        THEN IntStr(self.epoch[1]) \o <<":">> \o tail
        ELSE tail

\* ------------------------------------------------------------------------
\* Inputs of the operations
\* ------------------------------------------------------------------------

\* Package names; each is one character long.
Names == {"a", "b"}

NameLen(name) == 1

\* Version strings handed to add_package and update_package.
V_1_0_r1 == <<"1", ".", "0", "-", "1">>
V_1_0_r2 == <<"1", ".", "0", "-", "2">>
V_0_9_r9 == <<"0", ".", "9", "-", "9">>
V_1_1_r1 == <<"1", ".", "1", "-", "1">>
V_1_a_r1 == <<"1", ".", "a", "-", "1">>

VersionStrings == {V_1_0_r1, V_1_0_r2, V_0_9_r9, V_1_1_r1, V_1_a_r1}

\* Dependency lists handed to add_package and update_package.
DependsLists == {<<>>, <<"a">>, <<"b">>}

\* Package (wal.py, dataclass Package) values the operations are called with.
InputPackages ==
    [name : Names, version : VersionStrings, depends : DependsLists,
     external : {FALSE}, arch : {"any"}]

\* ------------------------------------------------------------------------
\* The WAL file
\* ------------------------------------------------------------------------

\* WAL.MAGIC: b'ALAI\x00\x00\x00\x00'
MAGIC == <<65, 76, 65, 73, 0, 0, 0, 0>>

\* The file is its 8-byte header followed by lines.  A line holds the JSON
\* texts written on it one after the other (one, unless a record was written
\* behind a line that had lost its newline) and the number of bytes that are
\* missing at its end: cut = 0 is a complete line with its newline, cut = 1 a
\* line without the newline, cut > 1 a line whose JSON text is cut short.
NoFile == [exists |-> FALSE, header |-> <<>>, lines |-> <<>>]

Record(op, package) == [op |-> op, args |-> package]

\* The value of 'args' that is the empty JSON object.
NoArgs == <<>>

\* Records that WAL.append never writes and a file can still hold: their op
\* is none of the operations play knows.
ForeignRecords == {Record("vacuum", NoArgs)}

Line(record) == [recs |-> <<record>>, cut |-> 0]

\* Number of characters of the name of an operation.
OpLen(op) ==
    IF op = "add-package" THEN 11
    ELSE IF op = "update-package" THEN 14
    ELSE IF op = "remove-package" THEN 14
    ELSE 6

RECURSIVE DependsLen(_)
DependsLen(depends) ==
    IF depends = <<>> THEN 0
    ELSE NameLen(Head(depends)) + 2
         + (IF Len(depends) > 1 THEN 2 ELSE 0) + DependsLen(Tail(depends))

\* Number of bytes of one "key": value member of the JSON object of args.
FieldLen(args, f) ==
    IF f = "name" THEN 10 + NameLen(args.name)
    ELSE IF f = "version" THEN 13 + Len(args.version)
    ELSE IF f = "depends" THEN 13 + DependsLen(args.depends)
    ELSE IF f = "external" THEN 12 + (IF args.external THEN 4 ELSE 5)
    ELSE IF f = "arch" THEN 13
    ELSE 7 + Len(f)

\* Number of bytes of the members of args with the ", " between them.
RECURSIVE ArgsLen(_, _)
ArgsLen(args, fields) ==
    IF fields = {} THEN 0
    ELSE LET f == CHOOSE x \in fields : TRUE
         IN  FieldLen(args, f) + (IF fields = {f} THEN 0 ELSE 2)
             + ArgsLen(args, fields \ {f})

\* Number of bytes of json.dumps({'op': op, 'args': asdict(package)}).
RecordLen(record) ==
    22 + OpLen(record.op) + ArgsLen(record.args, DOMAIN record.args)

RECURSIVE LinesSize(_)
LinesSize(lines) ==
    IF lines = <<>> THEN 0
    ELSE LET l == Head(lines)
             texts == [i \in 1..Len(l.recs) |-> RecordLen(l.recs[i])]
             Sum[i \in 0..Len(texts)] == IF i = 0 THEN 0 ELSE Sum[i - 1] + texts[i]
         IN  Sum[Len(texts)] + 1 - l.cut + LinesSize(Tail(lines))

\* fp.read(n) at the start of the file: its first n bytes, fewer when the
\* file is shorter.
Read(bytes, n) == IF Len(bytes) > n THEN SubSeq(bytes, 1, n) ELSE bytes

\* Size of the file in bytes.
FileSize(file) == Len(file.header) + LinesSize(file.lines)

\* fp.write(line); fp.write(b'\n') reaching the file: the bytes go behind the
\* last byte of the file, so they continue a last line that has no newline.
WriteLine(lines, record) ==
    IF lines # <<>> /\ lines[Len(lines)].cut > 0
    THEN [lines EXCEPT ![Len(lines)] =
              [recs |-> Append(lines[Len(lines)].recs, record), cut |-> 0]]
    ELSE Append(lines, Line(record))

RECURSIVE WriteLines(_, _)
WriteLines(lines, records) ==
    IF records = <<>> THEN lines
    ELSE WriteLines(WriteLine(lines, Head(records)), Tail(records))

\* json.loads(line) succeeds: one JSON text on the line, at most the newline
\* missing.
ValidJson(line) == Len(line.recs) = 1 /\ line.cut <= 1

\* ------------------------------------------------------------------------
\* State and the operations of WAL on it
\* ------------------------------------------------------------------------

\* State.packages of a new State: the empty dict.
NoPackages == <<>>

\* A WAL object: mode, state.revision, state.packages and the bytes written
\* to fp that are still in its userspace buffer (as records).
NewWAL == [mode |-> "init", revision |-> 0, packages |-> NoPackages, buf |-> <<>>]

\* WAL.append that writes the record whatever the mode.
append_Always(wal, op, package) ==
    [wal EXCEPT !.buf = Append(@, Record(op, package))]

\* WAL.append
append(wal, op, package) ==
    IF wal.mode # "ready" THEN wal
    ELSE [wal EXCEPT !.buf = Append(@, Record(op, package))]

\* UnknownDependencies with the check of the dependencies left out.
UnknownDependencies_Unchecked(packages, package) == {}

\* The dependencies of package that are not in the database.
UnknownDependencies(packages, package) ==
    {dep \in Range(package.depends) : dep \notin DOMAIN packages}

Insert(packages, package) ==
    [n \in DOMAIN packages \cup {package.name} |->
        IF n = package.name THEN package ELSE packages[n]]

\* add_package with the insertion made before the dependencies are verified.
add_package_InsertFirst(wal, package) ==
    IF package.name \in DOMAIN wal.packages
    THEN [res |-> "Duplicate", wal |-> wal]
    ELSE IF UnknownDependencies(wal.packages, package) # {}
    THEN [res |-> "MissingDependency",
          wal |-> [wal EXCEPT !.packages = Insert(@, package)]]
    ELSE [res |-> "ok",
          wal |-> append([wal EXCEPT !.packages = Insert(@, package)],
                         "add-package", package)]

\* WAL.add_package: the outcome and the WAL object after the call.
add_package(wal, package) ==
    IF package.name \in DOMAIN wal.packages
    THEN [res |-> "Duplicate", wal |-> wal]
    ELSE IF UnknownDependencies(wal.packages, package) # {}
    THEN [res |-> "MissingDependency", wal |-> wal]
    ELSE [res |-> "ok",
          wal |-> append([wal EXCEPT !.packages = Insert(@, package)],
                         "add-package", package)]

\* The check with `>` in the place of `>=`: the stored version again passes.
VerifyVersion_Greater(prev_version, next_version) ==
    LET prev_ver == from_string(prev_version)
        next_ver == from_string(next_version)
    IN  IF ~prev_ver.ok THEN prev_ver.err
        ELSE IF ~next_ver.ok THEN next_ver.err
        ELSE LET gt == Version_lt(next_ver, prev_ver)
             IN  IF gt = "TypeError" THEN "TypeError"
                 ELSE IF gt = "True" THEN "VersionNotStrictlyIncreasing"
                 ELSE "ok"

\* The check of versions in WAL.update_package: the exception it ends with,
\* "ok" when it passes.
VerifyVersion(prev_version, next_version) ==
    LET prev_ver == from_string(prev_version)
        next_ver == from_string(next_version)
    IN  IF ~prev_ver.ok THEN prev_ver.err
        ELSE IF ~next_ver.ok THEN next_ver.err
        ELSE LET ge == Version_ge(prev_ver, next_ver)
             IN  IF ge = "TypeError" THEN "TypeError"
                 ELSE IF ge = "True" THEN "VersionNotStrictlyIncreasing"
                 ELSE "ok"

\* WAL.update_package: the outcome and the WAL object after the call.
update_package(wal, package) ==
    IF package.name \notin DOMAIN wal.packages
    THEN [res |-> "NotFound", wal |-> wal]
    ELSE LET v == VerifyVersion(wal.packages[package.name].version, package.version)
         IN  IF v # "ok" THEN [res |-> v, wal |-> wal]
             ELSE IF UnknownDependencies(wal.packages, package) # {}
             THEN [res |-> "MissingDependency", wal |-> wal]
             ELSE [res |-> "ok",
                   wal |-> append([wal EXCEPT !.packages = Insert(@, package)],
                                  "update-package", package)]

\* The fields of the dataclass Package and those without a default.
PackageFields == {"name", "version", "depends", "external", "arch"}

RequiredFields == {"name", "version", "depends"}

\* Package(**args): a keyword that is no field and a missing field without
\* default raise TypeError, the other missing fields take their defaults.
Package(args) ==
    IF DOMAIN args \subseteq PackageFields /\ RequiredFields \subseteq DOMAIN args
    THEN [ok |-> TRUE,
          package |-> [name |-> args.name, version |-> args.version,
                       depends |-> args.depends,
                       external |-> IF "external" \in DOMAIN args
                                    THEN args.external ELSE FALSE,
                       arch |-> IF "arch" \in DOMAIN args THEN args.arch ELSE "any"]]
    ELSE [ok |-> FALSE, package |-> args]

\* One record of the log applied by play: add-package and update-package
\* build the Package and call the operation, any other op is logged as
\* unknown and ignored.
Apply(wal, obj) ==
    IF obj.op \in {"add-package", "update-package"}
    THEN LET p == Package(obj.args)
         IN  IF ~p.ok THEN [res |-> "TypeError", wal |-> wal]
             ELSE IF obj.op = "add-package" THEN add_package(wal, p.package)
             ELSE update_package(wal, p.package)
    ELSE [res |-> "ok", wal |-> wal]

\* WAL.play from line i on: the records are applied by the operations
\* themselves, in mode 'replaying'; the first exception ends it.
RECURSIVE PlayFrom(_, _, _)
PlayFrom(wal, lines, i) ==
    IF i > Len(lines)
    THEN [res |-> "ok", wal |-> [wal EXCEPT !.mode = "ready", !.revision = Len(lines)]]
    ELSE IF ~ValidJson(lines[i]) THEN [res |-> "JSONDecodeError", wal |-> wal]
    ELSE LET r == Apply(wal, lines[i].recs[1])
         IN  IF r.res # "ok" THEN r ELSE PlayFrom(r.wal, lines, i + 1)

\* WAL.play
play(wal, lines) == PlayFrom([wal EXCEPT !.mode = "replaying"], lines, 1)

\* ------------------------------------------------------------------------
\* Graph  (graph.py): nodes is the sequence of the names in the order of the
\* dict, links the dict from a name to the list of the names it points at
\* ------------------------------------------------------------------------

\* A Graph that holds nothing.
NoGraph == [nodes |-> <<>>, links |-> <<>>]

\* graph.links.get(src, []): the list of src, the empty list without a key.
Get(links, src) == IF src \in DOMAIN links THEN links[src] ELSE <<>>

\* inverse_edges, body of the for loop: links[dst] is created when missing
\* and src appended to it, for every dst of dsts in turn.
RECURSIVE AppendSrc(_, _, _)
AppendSrc(links, src, dsts) ==
    IF dsts = <<>> THEN links
    ELSE LET dst == Head(dsts)
             grown == [n \in DOMAIN links \cup {dst} |->
                          IF n = dst THEN Append(Get(links, dst), src)
                          ELSE links[n]]
         IN  AppendSrc(grown, src, Tail(dsts))

\* inverse_edges, the while loop: the names of queue are taken from its head.
RECURSIVE InverseLinks(_, _, _)
InverseLinks(graph, links, queue) ==
    IF queue = <<>> THEN links
    ELSE InverseLinks(graph,
                      AppendSrc(links, Head(queue), Get(graph.links, Head(queue))),
                      Tail(queue))

\* inverse_edges: links['python-numpy'] is printed before the Graph is
\* returned, which raises KeyError when nothing points at python-numpy.
inverse_edges(graph) ==
    LET links == InverseLinks(graph, <<>>, graph.nodes)
    IN  IF "python-numpy" \notin DOMAIN links
        THEN [res |-> "KeyError", graph |-> NoGraph]
        ELSE [res |-> "ok", graph |-> [nodes |-> graph.nodes, links |-> links]]

\* Depths are kept as they are up to MaxDepth + 1; behind it they go on
\* between MaxDepth and MaxDepth + 1.  No path without a repeated node is that
\* long, so only a traversal that walks round a cycle gets there.
MaxDepth == 4

\* depth + 1
Deeper(depth) == IF depth > MaxDepth THEN MaxDepth ELSE depth + 1

\* max(x, y)
Max(x, y) == IF x >= y THEN x ELSE y

\* subgraph_of, one turn of the while loop: the head of queue is taken off,
\* its depth recorded when it is the greatest seen, its links queued.
LoopTurn(graph, st) ==
    LET src == Head(st.queue)[1]
        depth == Head(st.queue)[2]
        seen == IF src \in DOMAIN st.effects THEN st.effects[src] ELSE 0
        links == Get(graph.links, src)
    IN  [effects |-> [n \in DOMAIN st.effects \cup {src} |->
                         IF n = src THEN Max(depth, seen) ELSE st.effects[n]],
         queue |-> Tail(st.queue) \o
                   [i \in 1..Len(links) |-> <<links[i], Deeper(depth)>>]]

\* The names of nodes in the order sorted() gives them.
NodeNames == <<"a", "b", "c", "python-numpy", "root">>

\* sorted(x) of a set of names
Sorted(x) == SelectSeq(NodeNames, LAMBDA n : n \in x)

\* subgraph_of behind the loop: one sorted list of names for every depth
\* from 0 to the greatest.
Generations(effs) ==
    LET depths == {effs[k] : k \in DOMAIN effs}
        max_depth == CHOOSE d \in depths : \A e \in depths : e <= d
    IN  [v \in 1..(max_depth + 1) |->
            Sorted({k \in DOMAIN effs : effs[k] = v - 1})]

\* ------------------------------------------------------------------------
\* The system: one WAL file and the WAL object of the process that owns it
\* ------------------------------------------------------------------------

VARIABLES
    disk,       \* the WAL file as the operating system holds it
    status,     \* "none": no WAL object; "open"; "closed"; "failed": open raised
    created,    \* TRUE when WAL.open of this object created the file
    mode,       \* WAL.mode
    revision,   \* WAL.state.revision
    packages,   \* WAL.state.packages
    buf,        \* records written to WAL.fp and not yet flushed
    last,       \* the last call: its operation and its outcome
    versions,   \* the strings handed to Version.from_string
    outcome,    \* what the calls on the versions returned or raised
    graph,      \* the dependency graph (deps of query)
    effs,       \* the Graph handed to subgraph_of
    origin,     \* the origin handed to subgraph_of
    queue,      \* subgraph_of: the local queue
    effects,    \* subgraph_of: the local effects
    gens,       \* the list subgraph_of returned
    query,      \* the last call of the query and its outcome
    outdir,     \* the files of output_dir of export_database, by their names
    procs,      \* the WAL objects of the processes that share the path
    exited,     \* exit status of the process of the last command, in a tuple
    build       \* resolve_dependencies: its arguments, its locals, where it is

walVars == <<disk, status, created, mode, revision, packages, buf, last>>

verVars == <<versions, outcome>>

graphVars == <<graph, effs, origin, queue, effects, gens, query>>

vars == <<walVars, verVars, graphVars, outdir, procs, build, exited>>

\* The WAL object held by the variables.
Self == [mode |-> mode, revision |-> revision, packages |-> packages, buf |-> buf]

Call(op, result) == [op |-> op, result |-> result]

\* The variables take the fields of the WAL object w.
Becomes(w) ==
    /\ mode' = w.mode
    /\ revision' = w.revision
    /\ packages' = w.packages
    /\ buf' = w.buf

\* The file and the buffer have room for one more record.
Room == Len(disk.lines) + Len(buf) < MaxRecords

\* No path has been opened yet.
WalInit ==
    /\ disk = NoFile
    /\ status = "none"
    /\ created = FALSE
    /\ mode = NewWAL.mode
    /\ revision = NewWAL.revision
    /\ packages = NewWAL.packages
    /\ buf = NewWAL.buf
    /\ last = Call("none", "ok")

\* No version is being parsed or compared.
VerIdle ==
    /\ versions = <<>>
    /\ outcome = Call("none", "ok")

\* No query runs on a graph.
GraphIdle ==
    /\ graph = NoGraph
    /\ effs = NoGraph
    /\ origin = ""
    /\ queue = <<>>
    /\ effects = <<>>
    /\ gens = <<>>
    /\ query = Call("none", "ok")

\* output_dir holds no file.
NoExport == outdir = <<>>

\* The processes that open the same path, each with a WAL object of its own:
\* the object, whether it is open, and the position of its fp counted in
\* lines behind the signature.
Procs == {1, 2}

NewProc == [status |-> "none", wal |-> NewWAL, pos |-> 0]

NoProcs == procs = [i \in Procs |-> NewProc]

\* resolve_dependencies has not been called.
NoBuild ==
    build = [pc |-> "idle", repo |-> <<>>, system |-> {}, queue |-> <<>>,
             nodes |-> <<>>, links |-> <<>>, resolved |-> <<>>]

\* No command has run.
NoCommand == exited = <<>>

Init ==
    WalInit /\ VerIdle /\ GraphIdle /\ NoExport /\ NoProcs /\ NoBuild /\ NoCommand

\* WAL.open on a new path that leaves the file empty.
OpenNew_NoSignature ==
    /\ UNCHANGED <<verVars, graphVars, outdir, procs, build, exited>>
    /\ status # "open"
    /\ ~disk.exists
    /\ disk' = [exists |-> TRUE, header |-> <<>>, lines |-> <<>>]
    /\ status' = "open"
    /\ created' = TRUE
    /\ Becomes(NewWAL)
    /\ last' = Call("open", "ok")

\* WAL.open on a path that does not exist.
OpenNew ==
    /\ UNCHANGED <<verVars, graphVars, outdir, procs, build, exited>>
    /\ status # "open"
    /\ ~disk.exists
    /\ disk' = [exists |-> TRUE, header |-> MAGIC, lines |-> <<>>]
    /\ status' = "open"
    /\ created' = TRUE
    /\ Becomes(NewWAL)
    /\ last' = Call("open", "ok")

\* WAL.open on an existing file that plays the log whatever the first bytes.
OpenExisting_Unverified ==
    /\ UNCHANGED <<verVars, graphVars, outdir, procs, build, exited>>
    /\ status # "open"
    /\ disk.exists
    /\ created' = FALSE
    /\ disk' = disk
    /\ LET r == play(NewWAL, disk.lines)
       IN  /\ status' = IF r.res = "ok" THEN "open" ELSE "failed"
           /\ Becomes(r.wal)
           /\ last' = Call("open", r.res)

\* WAL.open on an existing file: the signature is verified and the log played.
OpenExisting ==
    /\ UNCHANGED <<verVars, graphVars, outdir, procs, build, exited>>
    /\ status # "open"
    /\ disk.exists
    /\ created' = FALSE
    /\ disk' = disk
    /\ IF Read(disk.header, 8) # MAGIC
       THEN /\ status' = "failed"
            /\ Becomes(NewWAL)
            /\ last' = Call("open", "WrongSignature")
       ELSE LET r == play(NewWAL, disk.lines)
            IN  /\ status' = IF r.res = "ok" THEN "open" ELSE "failed"
                /\ Becomes(r.wal)
                /\ last' = Call("open", r.res)

\* WAL.add_package(package)
AddPackage(package) ==
    /\ UNCHANGED <<verVars, graphVars, outdir, procs, build, exited>>
    /\ status = "open"
    /\ LET r == add_package(Self, package)
       IN  /\ r.wal.buf # buf => Room
           /\ Becomes(r.wal)
           /\ last' = Call("add_package", r.res)
    /\ UNCHANGED <<disk, status, created>>

\* WAL.update_package(package)
UpdatePackage(package) ==
    /\ UNCHANGED <<verVars, graphVars, outdir, procs, build, exited>>
    /\ status = "open"
    /\ LET r == update_package(Self, package)
       IN  /\ r.wal.buf # buf => Room
           /\ Becomes(r.wal)
           /\ last' = Call("update_package", r.res)
    /\ UNCHANGED <<disk, status, created>>

\* wal.remove_package(name), as the remove-package command calls it: WAL
\* has no such method, the attribute lookup raises.
RemovePackage(name) ==
    /\ UNCHANGED <<verVars, graphVars, outdir, procs, build, exited>>
    /\ status = "open"
    /\ last' = Call("remove_package", "AttributeError")
    /\ UNCHANGED <<disk, status, created, mode, revision, packages, buf>>

\* WAL.flush
Flush ==
    /\ UNCHANGED <<verVars, graphVars, outdir, procs, build, exited>>
    /\ status = "open"
    /\ buf # <<>>
    /\ disk' = [disk EXCEPT !.lines = WriteLines(@, buf)]
    /\ buf' = <<>>
    /\ last' = Call("flush", "ok")
    /\ UNCHANGED <<status, created, mode, revision, packages>>

\* WAL.close: flush, then close the file.
Close ==
    /\ UNCHANGED <<verVars, graphVars, outdir, procs, build, exited>>
    /\ status = "open"
    /\ disk' = [disk EXCEPT !.lines = WriteLines(@, buf)]
    /\ buf' = <<>>
    /\ status' = "closed"
    /\ last' = Call("close", "ok")
    /\ UNCHANGED <<created, mode, revision, packages>>

\* The process ends without close.  What had been handed to the operating
\* system stays; of the buffer, the writes up to some write call reached the
\* file (append makes two per record: the line, then the newline).
Crash ==
    /\ UNCHANGED <<verVars, graphVars, outdir, procs, build, exited>>
    /\ status = "open"
    /\ \E n \in 0..Len(buf), half \in BOOLEAN :
          /\ half => n < Len(buf)
          /\ LET whole == WriteLines(disk.lines, SubSeq(buf, 1, n))
             IN  disk' = [disk EXCEPT !.lines =
                     IF half
                     THEN Append(whole, [recs |-> <<buf[n + 1]>>, cut |-> 1])
                     ELSE whole]
    /\ status' = "none"
    /\ created' = FALSE
    /\ Becomes(NewWAL)
    /\ last' = Call("crash", "ok")

\* The file loses k trailing bytes of its last record while no process has
\* it open: some of the bytes of the JSON text and the newline.
Truncate(k) ==
    /\ UNCHANGED <<verVars, graphVars, outdir, procs, build, exited>>
    /\ status # "open"
    /\ disk.exists
    /\ disk.lines # <<>>
    /\ LET l == disk.lines[Len(disk.lines)]
       IN  /\ l.cut = 0
           /\ Len(l.recs) = 1
           /\ k \in 1..RecordLen(l.recs[1])
           /\ disk' = [disk EXCEPT !.lines[Len(disk.lines)].cut = k]
    /\ status' = "none"
    /\ created' = FALSE
    /\ Becomes(NewWAL)
    /\ last' = Call("truncate", "ok")

\* The numbers of trailing bytes the last record of the file can lose.
Cuts ==
    IF disk.lines = <<>> THEN {}
    ELSE LET n == RecordLen(disk.lines[Len(disk.lines)].recs[1])
         IN  1..(IF n < MaxCut THEN n ELSE MaxCut)

Next ==
    \/ OpenNew
    \/ OpenExisting
    \/ \E package \in InputPackages : AddPackage(package)
    \/ \E package \in InputPackages : UpdatePackage(package)
    \/ \E name \in Names : RemovePackage(name)
    \/ Flush
    \/ Close
    \/ Crash
    \/ \E k \in Cuts : Truncate(k)

Spec == Init /\ [][Next]_vars

\* ------------------------------------------------------------------------
\* A session on a file that is already there, whatever its lines are
\* ------------------------------------------------------------------------

\* The records a line of the file can hold.
LogRecords ==
    {Record(op, package) :
        op \in {"add-package", "update-package"}, package \in InputPackages}
    \cup ForeignRecords

\* The files: the signature, then up to MaxRecords complete lines.
Logs ==
    {[exists |-> TRUE, header |-> MAGIC, lines |-> lines] :
        lines \in UNION {[1..n -> {Line(record) : record \in LogRecords}] :
                            n \in 0..MaxRecords}}

LogInit ==
    /\ disk \in Logs
    /\ status = "none"
    /\ created = FALSE
    /\ mode = NewWAL.mode
    /\ revision = NewWAL.revision
    /\ packages = NewWAL.packages
    /\ buf = NewWAL.buf
    /\ last = Call("none", "ok")
    /\ VerIdle
    /\ GraphIdle
    /\ NoExport
    /\ NoProcs
    /\ NoBuild
    /\ NoCommand

LogNext ==
    \/ OpenExisting
    \/ \E package \in InputPackages : AddPackage(package)
    \/ \E package \in InputPackages : UpdatePackage(package)
    \/ Flush
    \/ Close

LogSpec == LogInit /\ [][LogNext]_vars

\* ------------------------------------------------------------------------
\* export_database in a session (wal.py, export_database)
\* ------------------------------------------------------------------------

\* f'{pkg.name}-{pkg.version}'
Basename(pkg) == <<pkg.name, "-">> \o pkg.version

\* f'{basename}-{pkg.arch}.pkg.tar.zst'
Filename(pkg) == Basename(pkg) \o <<"-", pkg.arch, ".pkg.tar.zst">>

\* f'{name}-r{wal.state.revision}.db.tar.gz'
ArchiveName(name, rev) == <<name, "-r">> \o IntStr(rev) \o <<".db.tar.gz">>

\* buf of export_database (dbuf here) is kept as its lines, each a sequence
\* of strings, and a position in it is counted in lines.
\* write(key, val) of export_database: the lines it writes, val being the
\* list of the values (one for an int or a str).
write(key, val) == <<(<<"%", key, "%">>)>> \o val \o <<(<<>>)>>

\* The fifteen calls of write for a package.  The sizes, the digest and the
\* time are values of the files and the clock; they stand for themselves.
DescLines(pkg) ==
    write("FILENAME", <<Filename(pkg)>>)
    \o write("NAME", <<(<<pkg.name>>)>>)
    \o write("BASE", <<(<<pkg.name>>)>>)
    \o write("VERSION", <<pkg.version>>)
    \o write("DESC", <<(<<"TODO">>)>>)
    \o write("CSIZE", <<(<<"pkg_csize">>)>>)
    \o write("ISIZE", <<(<<"pkg_isize">>)>>)
    \o write("SHA256SUM", <<(<<"sha256sum">>)>>)
    \o write("URL", <<(<<"https://example.org">>)>>)
    \o write("LICENSE", <<(<<"TODO">>)>>)
    \o write("ARCH", <<(<<pkg.arch>>)>>)
    \o write("BUILDDATE", <<(<<"timestamp">>)>>)
    \o write("PACKAGER", <<(<<"Daniel Bershatsky <d.bershatsky2@skoltech.ru>">>)>>)
    \o write("DEPENDS", [i \in DOMAIN pkg.depends |-> <<pkg.depends[i]>>])
    \o write("MAKEDEPENDS", <<>>)

\* buf.seek(0) and the writes that follow: they replace what buf holds from
\* its start on; what it holds behind them stays.
Overwrite(dbuf, lines) ==
    [i \in 1..(IF Len(dbuf) > Len(lines) THEN Len(dbuf) ELSE Len(lines)) |->
        IF i <= Len(lines) THEN lines[i] ELSE dbuf[i]]

\* tar.addfile(tar_info, buf) that copies all of buf.
Copied_All(dbuf, size) == dbuf

\* tar.addfile(tar_info, buf) with buf at its start: tar_info.size of it is
\* copied into the archive.
Copied(dbuf, size) == SubSeq(dbuf, 1, size)

\* The two members the archive gets for a package: the directory and desc
\* with what was copied from buf.
Members(pkg, data) ==
    <<[name |-> Basename(pkg), type |-> "DIRTYPE", data |-> <<>>],
      [name |-> Basename(pkg) \o <<"/desc">>, type |-> "REGTYPE", data |-> data]>>

\* What package_dir holds under a file name: a package archive, a file that
\* is none, or nothing.
FileStates == {"package", "garbage", "missing"}

\* The for loop of export_database over the packages pkgs: the members added
\* to the archive, and the exception that ended the loop ("ok" without one).
\* stat() raises for a missing file, reading the inner archive for one that
\* is no package archive.  buf is the one buffer of the call.
RECURSIVE ExportLoop(_, _, _, _)
ExportLoop(pkgs, files, members, dbuf) ==
    IF pkgs = <<>> THEN [res |-> "ok", members |-> members]
    ELSE LET pkg == Head(pkgs)
             file == files[Filename(pkg)]
         IN  IF file = "missing"
             THEN [res |-> "FileNotFoundError", members |-> members]
             ELSE IF file = "garbage"
             THEN [res |-> "ReadError", members |-> members]
             ELSE LET lines == DescLines(pkg)
                      written == Overwrite(dbuf, lines)
                      size == Len(lines)
                  IN  ExportLoop(Tail(pkgs), files,
                                 members \o Members(pkg, Copied(written, size)),
                                 written)

\* export_database with the external packages exported as well.
export_database_All(pkgs, rev, files, dir, name) ==
    LET path == ArchiveName(name, rev)
        r == ExportLoop(pkgs, files, <<>>, <<>>)
    IN  [res |-> r.res,
         path |-> path,
         dir |-> [f \in DOMAIN dir \cup {path} |->
                     IF f = path THEN r.members ELSE dir[f]]]

\* export_database: the outcome and output_dir after the call.  The archive
\* is created (an existing one truncated) before the loop, and the with
\* statement closes it on every way out of the loop.
export_database(pkgs, rev, files, dir, name) ==
    LET path == ArchiveName(name, rev)
        r == ExportLoop(SelectSeq(pkgs, LAMBDA x : ~x.external), files, <<>>, <<>>)
    IN  [res |-> r.res,
         path |-> path,
         dir |-> [f \in DOMAIN dir \cup {path} |->
                     IF f = path THEN r.members ELSE dir[f]]]

\* The sequences that hold every element of S once.
Orders(S) ==
    {o \in [1..Cardinality(S) -> S] : \A i, j \in DOMAIN o : o[i] = o[j] => i = j}

\* The packages the sessions of the export work with: some are external.
ExportPackages ==
    [name : Names, version : {V_1_0_r1}, depends : {<<>>, <<"a">>},
     external : BOOLEAN, arch : {"any"}]

\* The name of the repository handed to export_database.
RepoName == "test"

\* export_database(wal, package_dir, output_dir, name).  The packages are
\* taken in the order of the dict, which is the order they were added in;
\* State as kept here does not hold that order, so any is taken.  package_dir
\* holds, for every file the call looks for, one of FileStates.
ExportDatabase ==
    /\ status = "open"
    /\ \E order \in Orders(DOMAIN packages) :
       \E files \in [{Filename(packages[n]) : n \in DOMAIN packages} -> FileStates] :
           LET r == export_database([i \in DOMAIN order |-> packages[order[i]]],
                                    revision, files, outdir, RepoName)
           IN  /\ outdir' = r.dir
               /\ last' = Call("export_database", r.res)
    /\ UNCHANGED <<verVars, graphVars, procs, build, exited>>
    /\ UNCHANGED <<disk, status, created, mode, revision, packages, buf>>

ENext ==
    \/ OpenNew
    \/ OpenExisting
    \/ \E package \in ExportPackages : AddPackage(package)
    \/ \E package \in ExportPackages : UpdatePackage(package)
    \/ Close
    \/ ExportDatabase

ESpec == Init /\ [][ENext]_vars

\* ------------------------------------------------------------------------
\* Version on its own: strings are parsed, the versions compared, rendered
\* and verified as update_package verifies them
\* ------------------------------------------------------------------------

\* Version strings with an epoch.
V_e2_0_0_0_r1 == <<"2", ":", "0", ".", "0", ".", "0", "-", "1">>
V_e2_0_0_r1 == <<"2", ":", "0", ".", "0", "-", "1">>
V_e1_1_0_r1 == <<"1", ":", "1", ".", "0", "-", "1">>
V_e1_2_0_r3 == <<"1", ":", "2", ".", "0", "-", "3">>
V_e0_1_0_r1 == <<"0", ":", "1", ".", "0", "-", "1">>
V_em1_1_0_r1 == <<"-", "1", ":", "1", ".", "0", "-", "1">>

V_9_9_9_r9 == <<"9", ".", "9", ".", "9", "-", "9">>

\* Strings that are no versions: "", "-1", "2.0-0", "a:1.0-1", "1.0-a".
V_empty == <<>>
V_r1 == <<"-", "1">>
V_2_0_r0 == <<"2", ".", "0", "-", "0">>
V_ea_1_0_r1 == <<"a", ":", "1", ".", "0", "-", "1">>
V_1_0_ra == <<"1", ".", "0", "-", "a">>

\* A string with two '-': "1.0-1-2".
V_1_0_r1_r2 == <<"1", ".", "0", "-", "1", "-", "2">>

\* The strings handed to Version.from_string.
VersionInputs ==
    VersionStrings \cup
    {V_e2_0_0_0_r1, V_e2_0_0_r1, V_e1_1_0_r1, V_e1_2_0_r3, V_e0_1_0_r1,
     V_em1_1_0_r1, V_9_9_9_r9, V_empty, V_r1, V_2_0_r0, V_ea_1_0_r1, V_1_0_ra,
     V_1_0_r1_r2}

\* How many strings are taken together.
Slots == 1..3

VInit ==
    /\ WalInit
    /\ GraphIdle
    /\ NoExport
    /\ NoProcs
    /\ NoBuild
    /\ NoCommand
    /\ versions \in [Slots -> VersionInputs]
    /\ outcome = Call("none", "ok")

\* Version.from_string on each string.
FromString ==
    /\ outcome.op = "none"
    /\ outcome' = Call("from_string", [i \in Slots |-> from_string(versions[i])])
    /\ UNCHANGED <<walVars, graphVars, outdir, procs, build, exited, versions>>

\* a < b and a == b for every two of the parsed versions.
Compare ==
    /\ outcome.op = "from_string"
    /\ \A i \in Slots : outcome.result[i].ok
    /\ outcome' =
           [op |-> "compare",
            result |-> outcome.result,
            lt |-> [i \in Slots |-> [j \in Slots |->
                       Version_lt(outcome.result[i], outcome.result[j])]],
            eq |-> [i \in Slots |-> [j \in Slots |->
                       Version_eq(outcome.result[i], outcome.result[j])]]]
    /\ UNCHANGED <<walVars, graphVars, outdir, procs, build, exited, versions>>

\* str(v) of each parsed version.
Str ==
    /\ outcome.op = "from_string"
    /\ \A i \in Slots : outcome.result[i].ok
    /\ outcome' = Call("str", [i \in Slots |-> Version_str(outcome.result[i])])
    /\ UNCHANGED <<walVars, graphVars, outdir, procs, build, exited, versions>>

\* The check of versions update_package makes, from the first string as the
\* stored version to the second as the new one.
Verify ==
    /\ outcome.op = "none"
    /\ outcome' = Call("verify", VerifyVersion(versions[1], versions[2]))
    /\ UNCHANGED <<walVars, graphVars, outdir, procs, build, exited, versions>>

VNext == FromString \/ Compare \/ Str \/ Verify

VSpec == VInit /\ [][VNext]_vars

\* ------------------------------------------------------------------------
\* A session on a file whose records were not all written by WAL.append:
\* removals, records of another shape, versions nobody parsed
\* ------------------------------------------------------------------------

\* Packages of the records and of the calls; Version.from_string rejects the
\* last of the versions.
ReplayPackages ==
    [name : Names, version : {V_1_0_r1, V_1_0_r2, V_2_0_r0}, depends : {<<>>},
     external : {FALSE}, arch : {"any"}]

\* args with the member f added, and with the member f left out.
WithField(args, f, value) ==
    [g \in DOMAIN args \cup {f} |-> IF g = f THEN value ELSE args[g]]

WithoutField(args, f) == [g \in DOMAIN args \ {f} |-> args[g]]

\* The record of a removal: the op and the name of the package.
RemoveRecords == {Record("remove-package", [name |-> n]) : n \in Names}

\* Records whose args are the members of a Package and one more.
ExtraFieldRecords ==
    {Record("add-package", WithField(package, "sha256", "x")) :
        package \in {q \in ReplayPackages : q.version = V_1_0_r1}}

\* Records whose args lack one member of a Package.
MissingFieldRecords ==
    {Record("add-package", WithoutField(package, f)) :
        f \in PackageFields,
        package \in {q \in ReplayPackages : q.version = V_1_0_r1 /\ q.name = "a"}}

ReplayRecords ==
    {Record(op, package) :
        op \in {"add-package", "update-package"}, package \in ReplayPackages}
    \cup RemoveRecords \cup ExtraFieldRecords \cup MissingFieldRecords

\* The files: the signature, then up to MaxRecords complete lines.
ReplayLogs ==
    {[exists |-> TRUE, header |-> MAGIC, lines |-> lines] :
        lines \in UNION {[1..n -> {Line(record) : record \in ReplayRecords}] :
                            n \in 0..MaxRecords}}

ReplayInit ==
    /\ disk \in ReplayLogs
    /\ status = "none"
    /\ created = FALSE
    /\ mode = NewWAL.mode
    /\ revision = NewWAL.revision
    /\ packages = NewWAL.packages
    /\ buf = NewWAL.buf
    /\ last = Call("none", "ok")
    /\ VerIdle
    /\ GraphIdle
    /\ NoExport
    /\ NoProcs
    /\ NoBuild
    /\ NoCommand

ReplayNext ==
    \/ OpenExisting
    \/ \E package \in ReplayPackages : AddPackage(package)
    \/ \E package \in ReplayPackages : UpdatePackage(package)
    \/ Flush
    \/ Close

ReplaySpec == ReplayInit /\ [][ReplayNext]_vars

\* ------------------------------------------------------------------------
\* A session on a file that starts with anything: the signature, a part of
\* it, or other bytes
\* ------------------------------------------------------------------------

\* The first bytes of a file: the signature, the signature with one byte
\* replaced, and, for a file shorter than 8 bytes, a part of the signature.
AlteredHeaders == {[MAGIC EXCEPT ![i] = 88] : i \in 1..Len(MAGIC)}

ShortHeaders == {SubSeq(MAGIC, 1, n) : n \in 0..Len(MAGIC) - 1}

HeaderPackages ==
    [name : Names, version : {V_1_0_r1, V_1_0_r2}, depends : {<<>>},
     external : {FALSE}, arch : {"any"}]

\* What follows the first 8 bytes: nothing, or the line of a record.
HeaderLines ==
    {<<>>} \cup {<<Line(Record("add-package", package))>> : package \in HeaderPackages}

HeaderFiles ==
    {[exists |-> TRUE, header |-> header, lines |-> lines] :
        header \in {MAGIC} \cup AlteredHeaders, lines \in HeaderLines}
    \cup {[exists |-> TRUE, header |-> header, lines |-> <<>>] :
              header \in ShortHeaders}
    \cup {NoFile}

HeaderInit ==
    /\ disk \in HeaderFiles
    /\ status = "none"
    /\ created = FALSE
    /\ mode = NewWAL.mode
    /\ revision = NewWAL.revision
    /\ packages = NewWAL.packages
    /\ buf = NewWAL.buf
    /\ last = Call("none", "ok")
    /\ VerIdle
    /\ GraphIdle
    /\ NoExport
    /\ NoProcs
    /\ NoBuild
    /\ NoCommand

HeaderNext ==
    \/ OpenNew
    \/ OpenExisting
    \/ \E package \in HeaderPackages : AddPackage(package)
    \/ \E package \in HeaderPackages : UpdatePackage(package)
    \/ Flush
    \/ Close

HeaderSpec == HeaderInit /\ [][HeaderNext]_vars

\* ------------------------------------------------------------------------
\* The open of a log whose records were not written by the operations
\* ------------------------------------------------------------------------

\* Packages of the records: versions with and without epoch, with a
\* component that is no integer, and dependencies present or not.
RecordPackages ==
    [name : Names,
     version : {V_1_0_r1, V_1_0_r2, V_1_1_r1, V_e1_1_0_r1, V_1_a_r1},
     depends : {<<>>, <<"b">>}, external : {FALSE}, arch : {"any"}]

RecordLines ==
    {Line(Record(op, package)) :
        op \in {"add-package", "update-package"}, package \in RecordPackages}

\* The files: the signature, then up to MaxRecords complete lines.
RecordLogs ==
    {[exists |-> TRUE, header |-> MAGIC, lines |-> lines] :
        lines \in UNION {[1..n -> RecordLines] : n \in 0..MaxRecords}}

RecordInit ==
    /\ disk \in RecordLogs
    /\ status = "none"
    /\ created = FALSE
    /\ mode = NewWAL.mode
    /\ revision = NewWAL.revision
    /\ packages = NewWAL.packages
    /\ buf = NewWAL.buf
    /\ last = Call("none", "ok")
    /\ VerIdle
    /\ GraphIdle
    /\ NoExport
    /\ NoProcs
    /\ NoBuild
    /\ NoCommand

RecordNext ==
    \/ OpenExisting
    \/ Close

RecordSpec == RecordInit /\ [][RecordNext]_vars

\* ------------------------------------------------------------------------
\* A session that goes on calling the WAL object after close
\* ------------------------------------------------------------------------

\* fp.write on the closed file raises ValueError.
ClosedFile == "ValueError (write to closed file)"

\* An operation called on a WAL object whose file is closed, r being what it
\* does to an open one: the checks and the change of State are the same; the
\* append, where it gets to fp.write, raises and writes nothing.
CallOnClosed(op, r) ==
    IF r.wal.buf # buf
    THEN /\ packages' = r.wal.packages
         /\ last' = Call(op, ClosedFile)
         /\ UNCHANGED <<mode, revision, buf>>
    ELSE /\ Becomes(r.wal)
         /\ last' = Call(op, r.res)

\* WAL.add_package(package) after WAL.close
AddClosed(package) ==
    /\ UNCHANGED <<verVars, graphVars, outdir, procs, build, exited>>
    /\ status = "closed"
    /\ CallOnClosed("add_package", add_package(Self, package))
    /\ UNCHANGED <<disk, status, created>>

\* WAL.update_package(package) after WAL.close
UpdateClosed(package) ==
    /\ UNCHANGED <<verVars, graphVars, outdir, procs, build, exited>>
    /\ status = "closed"
    /\ CallOnClosed("update_package", update_package(Self, package))
    /\ UNCHANGED <<disk, status, created>>

LateNext ==
    \/ HeaderNext
    \/ \E package \in HeaderPackages : AddClosed(package)
    \/ \E package \in HeaderPackages : UpdateClosed(package)

LateSpec == HeaderInit /\ [][LateNext]_vars

\* ------------------------------------------------------------------------
\* Two processes that open the same path: each has a WAL object and a file
\* object of its own, the file is shared
\* ------------------------------------------------------------------------

\* Packages of the calls of the processes.  Their records have all the same
\* number of bytes, so what one file object writes at its position covers
\* whole lines of what another has written there.
PeerPackages ==
    [name : Names, version : {V_1_0_r1}, depends : {<<>>},
     external : {FALSE}, arch : {"any"}]

\* The buffered records reaching the file at the position of the file object
\* (the file is opened 'r+b' or 'wb', never for appending): they replace the
\* lines behind the position and lengthen the file where it ends before them.
WriteAt(lines, pos, records) ==
    LET end == pos + Len(records)
        n == IF end > Len(lines) THEN end ELSE Len(lines)
    IN  [i \in 1..n |-> IF pos < i /\ i <= end THEN Line(records[i - pos])
                        ELSE lines[i]]

\* Lines of the file and records in the buffers stay within the bound.
PeerRoom ==
    LET Buffered[S \in SUBSET Procs] ==
            IF S = {} THEN 0
            ELSE LET i == CHOOSE x \in S : TRUE
                 IN  Len(procs[i].wal.buf) + Buffered[S \ {i}]
    IN  Len(disk.lines) + Buffered[Procs] < MaxRecords

PeerFrame ==
    UNCHANGED <<status, created, mode, revision, packages, buf,
                verVars, graphVars, outdir, build, exited>>

\* WAL.open in process i
PeerOpen(i) ==
    /\ PeerFrame
    /\ procs[i].status # "open"
    /\ IF ~disk.exists
       THEN /\ disk' = [exists |-> TRUE, header |-> MAGIC, lines |-> <<>>]
            /\ procs' = [procs EXCEPT ![i] =
                             [status |-> "open", wal |-> NewWAL, pos |-> 0]]
            /\ last' = Call("open", "ok")
       ELSE /\ disk' = disk
            /\ IF Read(disk.header, 8) # MAGIC
               THEN /\ procs' = [procs EXCEPT ![i] =
                                    [status |-> "failed", wal |-> NewWAL, pos |-> 0]]
                    /\ last' = Call("open", "WrongSignature")
               ELSE LET r == play(NewWAL, disk.lines)
                    IN  /\ procs' = [procs EXCEPT ![i] =
                                        [status |-> IF r.res = "ok" THEN "open"
                                                    ELSE "failed",
                                         wal |-> r.wal,
                                         pos |-> Len(disk.lines)]]
                        /\ last' = Call("open", r.res)

\* WAL.add_package(package) in process i
PeerAdd(i, package) ==
    /\ PeerFrame
    /\ procs[i].status = "open"
    /\ LET r == add_package(procs[i].wal, package)
       IN  /\ r.wal.buf # procs[i].wal.buf => PeerRoom
           /\ procs' = [procs EXCEPT ![i].wal = r.wal]
           /\ last' = Call("add_package", r.res)
    /\ disk' = disk

\* WAL.flush in process i
PeerFlush(i) ==
    /\ PeerFrame
    /\ procs[i].status = "open"
    /\ procs[i].wal.buf # <<>>
    /\ disk' = [disk EXCEPT !.lines = WriteAt(@, procs[i].pos, procs[i].wal.buf)]
    /\ procs' = [procs EXCEPT ![i].pos = @ + Len(procs[i].wal.buf),
                              ![i].wal.buf = <<>>]
    /\ last' = Call("flush", "ok")

\* WAL.close in process i: flush, then close the file.
PeerClose(i) ==
    /\ PeerFrame
    /\ procs[i].status = "open"
    /\ disk' = [disk EXCEPT !.lines = WriteAt(@, procs[i].pos, procs[i].wal.buf)]
    /\ procs' = [procs EXCEPT ![i].status = "closed",
                              ![i].pos = @ + Len(procs[i].wal.buf),
                              ![i].wal.buf = <<>>]
    /\ last' = Call("close", "ok")

PeerNext ==
    \E i \in Procs :
        \/ PeerOpen(i)
        \/ \E package \in PeerPackages : PeerAdd(i, package)
        \/ PeerFlush(i)
        \/ PeerClose(i)

PeerSpec == Init /\ [][PeerNext]_vars

\* ------------------------------------------------------------------------
\* resolve_dependencies (graph.py), one turn of its while loop at a time.
\* Names and dependency tokens are sequences of characters.
\* ------------------------------------------------------------------------

\* Length of the longest depends list of a recipe.
MaxDepends == 2

\* RE_COMPARISON matches at place i of the token.
ComparatorAt(token, i) ==
    \/ token[i] \in {">", "<"}
    \/ token[i] = "=" /\ i < Len(token) /\ token[i + 1] = "="

\* strip without the cut: the token as it is.
strip_Whole(token) == token

\* strip: the token up to the first match of RE_COMPARISON.
strip(token) ==
    LET at == {i \in 1..Len(token) : ComparatorAt(token, i)}
    IN  IF at = {} THEN token ELSE SubSeq(token, 1, MinOf(at) - 1)

\* find_package of the extension: the package of the system of that name,
\* None when there is none.
find_package(system, name) == IF name \in system THEN "Package" ELSE "None"

\* repo.get(pkg_name), and find_package when it raises: what the name
\* resolves to.
Resolve(repo, system, name) ==
    IF name \in DOMAIN repo THEN "PackageInfo" ELSE find_package(system, name)

\* The turn of the while loop that skips no name it has resolved before.
BuildTurn_Again(b) ==
    LET pkg_name == strip(Head(b.queue))
        rest == Tail(b.queue)
        pkg_info == Resolve(b.repo, b.system, pkg_name)
    IN  IF pkg_info = "None" THEN [b EXCEPT !.queue = rest]
        ELSE LET nodes == [n \in DOMAIN b.nodes \cup {pkg_name} |->
                              IF n = pkg_name THEN pkg_info ELSE b.nodes[n]]
                 resolved == Append(b.resolved, pkg_name)
             IN  IF pkg_info = "Package"
                 THEN [b EXCEPT !.queue = rest, !.nodes = nodes,
                                !.resolved = resolved]
                 ELSE LET deps == [i \in DOMAIN b.repo[pkg_name] |->
                                      strip(b.repo[pkg_name][i])]
                      IN  [b EXCEPT !.queue = rest \o deps,
                                    !.nodes = nodes,
                                    !.resolved = resolved,
                                    !.links = [n \in DOMAIN b.links \cup {pkg_name} |->
                                                  IF n = pkg_name THEN deps
                                                  ELSE b.links[n]]]

\* One turn of the while loop: the head of the queue is taken off and
\* stripped; a name in nodes is skipped; a name that resolves to nothing is
\* dropped; a package of the system becomes a node; a recipe becomes a node,
\* its stripped depends its links, and they are queued.
BuildTurn(b) ==
    LET pkg_name == strip(Head(b.queue))
        rest == Tail(b.queue)
        pkg_info == Resolve(b.repo, b.system, pkg_name)
    IN  IF pkg_name \in DOMAIN b.nodes THEN [b EXCEPT !.queue = rest]
        ELSE IF pkg_info = "None" THEN [b EXCEPT !.queue = rest]
        ELSE LET nodes == [n \in DOMAIN b.nodes \cup {pkg_name} |->
                              IF n = pkg_name THEN pkg_info ELSE b.nodes[n]]
                 resolved == Append(b.resolved, pkg_name)
             IN  IF pkg_info = "Package"
                 THEN [b EXCEPT !.queue = rest, !.nodes = nodes,
                                !.resolved = resolved]
                 ELSE LET deps == [i \in DOMAIN b.repo[pkg_name] |->
                                      strip(b.repo[pkg_name][i])]
                      IN  [b EXCEPT !.queue = rest \o deps,
                                    !.nodes = nodes,
                                    !.resolved = resolved,
                                    !.links = [n \in DOMAIN b.links \cup {pkg_name} |->
                                                  IF n = pkg_name THEN deps
                                                  ELSE b.links[n]]]

\* The names of the recipes in the order of repo.package_names (sorted), and
\* the tokens of their depends.
RecipeNames == <<(<<"a">>), (<<"b">>)>>

Tokens == {<<"a">>, <<"b", ">", "=", "1">>, <<"c", "=", "=", "2">>, <<"b", "=", "1">>}

DependsOfRecipes == UNION {[1..n -> Tokens] : n \in 0..MaxDepends}

\* The repositories: some of the names with a recipe each.
Repos ==
    UNION {[S -> DependsOfRecipes] : S \in SUBSET Range(RecipeNames)}

\* The sets of names the system has a package of.
Systems == SUBSET {<<"c">>, <<"b">>}

BuildIdle ==
    UNCHANGED <<walVars, verVars, graphVars, outdir, procs, exited>>

BuildInit ==
    /\ WalInit
    /\ VerIdle
    /\ GraphIdle
    /\ NoExport
    /\ NoProcs
    /\ NoCommand
    /\ \E repo \in Repos, system \in Systems :
           build = [pc |-> "start", repo |-> repo, system |-> system,
                    queue |-> <<>>, nodes |-> <<>>, links |-> <<>>,
                    resolved |-> <<>>]

\* 1. Populates queue: the names of the repository in their order.
Populate ==
    /\ BuildIdle
    /\ build.pc = "start"
    /\ build' = [build EXCEPT
                     !.pc = "loop",
                     !.queue = SelectSeq(RecipeNames,
                                         LAMBDA n : n \in DOMAIN build.repo)]

\* 2. One turn of the while loop.
Turn ==
    /\ BuildIdle
    /\ build.pc = "loop"
    /\ build.queue # <<>>
    /\ build' = BuildTurn(build)

\* The queue is empty: Graph(nodes, links) is returned.
BuildReturn ==
    /\ BuildIdle
    /\ build.pc = "loop"
    /\ build.queue = <<>>
    /\ build' = [build EXCEPT !.pc = "done"]

BuildNext == Populate \/ Turn \/ BuildReturn

BuildSpec == BuildInit /\ [][BuildNext]_vars

\* The interpreter goes on with the next statement as long as there is one.
BuildFairSpec == BuildSpec /\ WF_vars(BuildNext)

\* ------------------------------------------------------------------------
\* The commands add-package, update-package and remove-package (cli): each
\* runs in a process of its own, opens the WAL of the repository, tries one
\* operation and closes it
\* ------------------------------------------------------------------------

\* dep_version = '0.0.0-1'
V_0_0_0_r1 == <<"0", ".", "0", ".", "0", "-", "1">>

\* The packages prepare_package returns from the PKGBUILD of the directory.
CommandPackages ==
    [name : Names, version : {V_1_0_r1, V_1_0_r2}, depends : {<<>>, <<"b">>},
     external : {FALSE}, arch : {"any"}]

\* The names find_package of the extension knows.
CommandSystems == {{}, {"b"}}

\* alai.wal.open(path_like) up to the yield: WAL.open on the file d, a new
\* file when there is none; played is what WAL.play gives on its lines.
open(d, played) ==
    IF ~d.exists
    THEN [res |-> "ok", wal |-> NewWAL, created |-> TRUE,
          disk |-> [exists |-> TRUE, header |-> MAGIC, lines |-> <<>>]]
    ELSE IF Read(d.header, 8) # MAGIC
    THEN [res |-> "WrongSignature", wal |-> NewWAL, created |-> FALSE, disk |-> d]
    ELSE [res |-> played.res, wal |-> played.wal, created |-> FALSE, disk |-> d]

\* Package(dep.name, dep_version, [], True)
dep_pkg(dep_name) ==
    [name |-> dep_name, version |-> V_0_0_0_r1, depends |-> <<>>,
     external |-> TRUE, arch |-> "any"]

\* The loop over pkg.depends of add_package and update_package: `return 1`
\* at a name find_package does not know, add_package of the names the WAL
\* does not hold.
RECURSIVE InsertDependencies(_, _, _)
InsertDependencies(wal, depends, system) ==
    IF depends = <<>> THEN [ret |-> "None", wal |-> wal]
    ELSE LET dep_name == Head(depends)
         IN  IF find_package(system, dep_name) = "None"
             THEN [ret |-> "1", wal |-> wal]
             ELSE IF dep_name \notin DOMAIN wal.packages
             THEN InsertDependencies(add_package(wal, dep_pkg(dep_name)).wal,
                                     Tail(depends), system)
             ELSE InsertDependencies(wal, Tail(depends), system)

\* main: sys.exit(code) when the handler returned a code, the end of the
\* process without it.
ExitStatus(ret) == IF ret = "None" THEN 0 ELSE 1

\* The call in `try`: wal.add_package(pkg), wal.update_package(pkg), or
\* wal.remove_package(package_name), a method WAL does not have.
Try(op, wal, package) ==
    IF op = "add_package" THEN add_package(wal, package)
    ELSE IF op = "update_package" THEN update_package(wal, package)
    ELSE [res |-> "AttributeError", wal |-> wal]

\* The handler of a command from the open of the WAL on: an exception of
\* the open leaves the process uncaught; the loop over depends; the
\* operation Try in `try`, its exception logged in `except Exception`; the
\* close of the WAL by the context manager; the exit status main gives.
Handler(op, package, depends, system) ==
    \E o \in {open(disk, play(NewWAL, disk.lines))} :
        IF o.res # "ok"
        THEN /\ disk' = o.disk
             /\ status' = "failed"
             /\ created' = o.created
             /\ Becomes(o.wal)
             /\ last' = Call("open", o.res)
             /\ exited' = <<1>>
        ELSE \E d \in {InsertDependencies(o.wal, depends, system)} :
             \E r \in {IF d.ret = "None" THEN Try(op, d.wal, package)
                        ELSE [res |-> "ok", wal |-> d.wal]} :
                 /\ disk' = [o.disk EXCEPT !.lines = WriteLines(@, r.wal.buf)]
                 /\ Len(disk'.lines) <= MaxRecords
                 /\ status' = "closed"
                 /\ created' = o.created
                 /\ Becomes([r.wal EXCEPT !.buf = <<>>])
                 /\ last' = IF d.ret = "None" THEN Call(op, r.res)
                            ELSE Call("find_package", "None")
                 /\ exited' = <<ExitStatus(d.ret)>>

\* The command add-package, pkg being what prepare_package returned.
AddPackageCommand(pkg, system) ==
    /\ UNCHANGED <<verVars, graphVars, outdir, procs, build>>
    /\ status # "open"
    /\ Handler("add_package", pkg, pkg.depends, system)

\* The command update-package, pkg being what prepare_package returned.
UpdatePackageCommand(pkg, system) ==
    /\ UNCHANGED <<verVars, graphVars, outdir, procs, build>>
    /\ status # "open"
    /\ Handler("update_package", pkg, pkg.depends, system)

\* The command remove-package.
RemovePackageCommand(package_name) ==
    /\ UNCHANGED <<verVars, graphVars, outdir, procs, build>>
    /\ status # "open"
    /\ Handler("remove_package", package_name, <<>>, {})

CommandInit ==
    /\ disk \in {NoFile, [exists |-> TRUE, header |-> MAGIC, lines |-> <<>>]}
    /\ status = "none"
    /\ created = FALSE
    /\ mode = NewWAL.mode
    /\ revision = NewWAL.revision
    /\ packages = NewWAL.packages
    /\ buf = NewWAL.buf
    /\ last = Call("none", "ok")
    /\ VerIdle
    /\ GraphIdle
    /\ NoExport
    /\ NoProcs
    /\ NoBuild
    /\ NoCommand

CommandNext ==
    \/ \E pkg \in CommandPackages, system \in CommandSystems :
          AddPackageCommand(pkg, system)
    \/ \E pkg \in CommandPackages, system \in CommandSystems :
          UpdatePackageCommand(pkg, system)
    \/ \E package_name \in Names : RemovePackageCommand(package_name)

CommandSpec == CommandInit /\ [][CommandNext]_vars

\* ------------------------------------------------------------------------
\* The query on a dependency graph: inverse_edges, then subgraph_of step by
\* step (query.py), or subgraph_of on the graph itself
\* ------------------------------------------------------------------------

\* The dependency graph of section 8, scenario 4.
ScenarioGraph ==
    [nodes |-> <<"root", "a", "b", "c">>,
     links |-> [n \in {"root", "a", "b", "c"} |->
                   IF n = "root" THEN <<"a", "b">>
                   ELSE IF n = "c" THEN <<>> ELSE <<"c">>]]

\* The same with python-numpy, a package of the host, among the dependencies
\* of root.
NumpyGraph ==
    [nodes |-> <<"root", "a", "b", "c", "python-numpy">>,
     links |-> [n \in {"root", "a", "b", "c"} |->
                   IF n = "root" THEN <<"a", "b", "python-numpy">>
                   ELSE IF n = "c" THEN <<>> ELSE <<"c">>]]

\* Graphs on a, b, c whose links go from a name to later ones only; a name
\* can be listed twice.
ForwardGraphs ==
    {[nodes |-> <<"a", "b", "c">>,
      links |-> [n \in {"a", "b", "c"} |->
                    IF n = "a" THEN la ELSE IF n = "b" THEN lb ELSE <<>>]] :
        la \in {<<>>, <<"b">>, <<"c">>, <<"b", "c">>, <<"c", "b">>, <<"c", "c">>},
        lb \in {<<>>, <<"c">>, <<"c", "c">>}}

\* Graphs on a, b, c in which every name points at one name at most: the
\* ones with a cycle or a self-loop are among them.
SingleLinkGraphs ==
    {[nodes |-> <<"a", "b", "c">>, links |-> l] :
        l \in [{"a", "b", "c"} -> {<<>>, <<"a">>, <<"b">>, <<"c">>}]}

Graphs == {ScenarioGraph, NumpyGraph} \cup ForwardGraphs \cup SingleLinkGraphs

Running == Call("subgraph_of", "running")

GInit ==
    /\ WalInit
    /\ VerIdle
    /\ NoExport
    /\ NoProcs
    /\ NoBuild
    /\ NoCommand
    /\ graph \in Graphs
    /\ origin \in Range(NodeNames)
    /\ effs = NoGraph
    /\ queue = <<>>
    /\ effects = <<>>
    /\ gens = <<>>
    /\ query = Call("resolve_dependencies", "ok")

\* effs = inverse_edges(deps)
InverseEdges ==
    /\ query.op = "resolve_dependencies"
    /\ LET r == inverse_edges(graph)
       IN  /\ effs' = r.graph
           /\ query' = Call("inverse_edges", r.res)
    /\ UNCHANGED <<walVars, verVars, outdir, procs, build, exited, graph, origin, queue, effects, gens>>

\* subgraph_of(effs, origin) is entered: effects is empty and queue holds
\* the origin at depth 0.
SubgraphOf(g) ==
    /\ effs' = g
    /\ queue' = <<<<origin, 0>>>>
    /\ effects' = <<>>
    /\ query' = Running
    /\ UNCHANGED <<walVars, verVars, outdir, procs, build, exited, graph, origin, gens>>

\* subgraph_of on the graph inverse_edges returned.
SubgraphOfInverse ==
    /\ query = Call("inverse_edges", "ok")
    /\ SubgraphOf(effs)

\* subgraph_of on the dependency graph itself.
SubgraphOfGraph ==
    /\ query.op = "resolve_dependencies"
    /\ SubgraphOf(graph)

\* One turn of the while loop of subgraph_of.
Loop ==
    /\ query = Running
    /\ queue # <<>>
    /\ LET st == LoopTurn(effs, [queue |-> queue, effects |-> effects])
       IN  /\ queue' = st.queue
           /\ effects' = st.effects
    /\ UNCHANGED <<walVars, verVars, outdir, procs, build, exited, graph, effs, origin, gens, query>>

\* The loop is left with the queue empty and the generations are returned.
Return ==
    /\ query = Running
    /\ queue = <<>>
    /\ gens' = Generations(effects)
    /\ query' = Call("subgraph_of", "ok")
    /\ UNCHANGED <<walVars, verVars, outdir, procs, build, exited, graph, effs, origin, queue, effects>>

GNext ==
    \/ InverseEdges
    \/ SubgraphOfInverse
    \/ SubgraphOfGraph
    \/ Loop
    \/ Return

GSpec == GInit /\ [][GNext]_vars

\* The interpreter goes on with the next statement of the query as long as
\* there is one.
GFairSpec == GSpec /\ WF_vars(GNext)

\* ------------------------------------------------------------------------
\* The order of versions the specification defines (section 3), on parsed
\* versions: epochs first (absent below present, then numerically), then the
\* components (int below str, a proper prefix below the longer sequence),
\* then the release.
\* ------------------------------------------------------------------------

RefEpochLess(e, f) ==
    \/ e = NoEpoch /\ f # NoEpoch
    \/ e # NoEpoch /\ f # NoEpoch /\ e[1] < f[1]

RefTokenLess(x, y) ==
    IF x.int /\ y.int THEN x.n < y.n
    ELSE IF ~x.int /\ ~y.int THEN StrLt(x.s, y.s)
    ELSE x.int

RefComponentsLess(a, b) ==
    LET m == IF Len(a) < Len(b) THEN Len(a) ELSE Len(b)
        D == {i \in 1..m : a[i] # b[i]}
    IN  IF D = {} THEN Len(a) < Len(b)
        ELSE RefTokenLess(a[MinOf(D)], b[MinOf(D)])

RefLess(v, w) ==
    \/ RefEpochLess(v.epoch, w.epoch)
    \/ /\ v.epoch = w.epoch
       /\ \/ RefComponentsLess(v.components, w.components)
          \/ v.components = w.components /\ v.release < w.release

\* ------------------------------------------------------------------------
\* Claims
\* ------------------------------------------------------------------------

Mutations == {"add_package", "update_package", "remove_package"}

\* The State a replay of the lines gives, from a new WAL object.
Replay(lines) == play(NewWAL, lines)

\* C1: a WAL opened on a path that did not exist, once closed, has a file
\* whose replay gives the State (packages and revision) the session ended with.
C1_RoundTrip ==
    (status = "closed" /\ created) =>
        /\ Replay(disk.lines).res = "ok"
        /\ Replay(disk.lines).wal.packages = packages
        /\ Replay(disk.lines).wal.revision = revision

\* C2: WAL.open on a path that does not exist creates the file with the magic
\* and returns a WAL in mode ready, so that a successful add_package or
\* update_package on it is appended to the file.
C2_FreshOpenReady ==
    (status = "open" /\ created) =>
        /\ disk.exists
        /\ disk.header = MAGIC
        /\ mode = "ready"
        /\ (last.op \in {"add_package", "update_package"} /\ last.result = "ok")
               => Len(disk.lines) + Len(buf) > 0

\* C3: revision counts the applied records: replay leaves it at the number of
\* records of the file, a successful add_package, update_package or
\* remove_package adds one, a failed one leaves it, and it never decreases.
C3_Step ==
    /\ (last'.op = "open" /\ last'.result = "ok") => revision' = Len(disk'.lines)
    /\ (last'.op \in Mutations /\ last'.result = "ok") => revision' = revision + 1
    /\ (last'.op \in Mutations /\ last'.result # "ok") => revision' = revision
    /\ (status = "open" /\ status' = "open") => revision' >= revision

\* C3: every step keeps revision equal to the number of applied records.
C3_RevisionCounts == [][C3_Step]_vars

\* C4: State is closed under dependency: every name in the depends list of a
\* package of State is a key of State.packages.
C4_DependencyClosure ==
    \A n \in DOMAIN packages :
        \A d \in Range(packages[n].depends) : d \in DOMAIN packages

\* A replayed State that holds a package with a dependency.
C4_Witness ==
    /\ status = "open"
    /\ last = Call("open", "ok")
    /\ \E n \in DOMAIN packages : packages[n].depends # <<>>

\* C5: add_package(p) fails with Duplicate when p.name is in State, with
\* MissingDependency when the name is new and a dependency is not in State,
\* and a failed add_package leaves packages, revision and the bytes of the
\* file (those on disk and those in the buffer) as they were.
C5_Step ==
    last'.op = "add_package" =>
        \A p \in InputPackages :
            AddPackage(p) =>
                /\ p.name \in DOMAIN packages => last'.result = "Duplicate"
                /\ (/\ p.name \notin DOMAIN packages
                    /\ \E d \in Range(p.depends) : d \notin DOMAIN packages)
                       => last'.result = "MissingDependency"
                /\ last'.result # "ok" =>
                       /\ last'.result \in {"Duplicate", "MissingDependency"}
                       /\ UNCHANGED <<packages, revision, disk, buf>>

\* C5: every add_package step fails with the kind the claim names and, when
\* it fails, changes nothing.
C5_FailedAddChangesNothing == [][C5_Step]_vars

\* A failed add_package on a fresh WAL: the file is 8 bytes long.
C5_Witness ==
    /\ status = "open"
    /\ created
    /\ last = Call("add_package", "MissingDependency")
    /\ packages = NoPackages
    /\ FileSize(disk) = 8

\* All components of the parsed version are integers.
Numeric(v) == \A i \in 1..Len(v.components) : v.components[i].int

\* C6: update_package(p) succeeds whenever p.name is in State, every
\* dependency of p is in State and the version of p is strictly greater than
\* the stored one in the order of section 3; the entry is then p, and a WAL
\* in mode ready has appended one update-package record.  Stated for the
\* versions whose components are all integers.
C6_Step ==
    \A p \in InputPackages :
        (/\ UpdatePackage(p)
         /\ p.name \in DOMAIN packages
         /\ \A d \in Range(p.depends) : d \in DOMAIN packages
         /\ Numeric(from_string(packages[p.name].version))
         /\ Numeric(from_string(p.version))
         /\ RefLess(from_string(packages[p.name].version), from_string(p.version)))
        => /\ last'.result = "ok"
           /\ packages' = Insert(packages, p)
           /\ mode = "ready" => buf' = Append(buf, Record("update-package", p))

\* C6: every update_package step to a strictly greater version succeeds.
C6_UpdateSucceeds == [][C6_Step]_vars

\* C7: update_package(p) with a version equal to or less than the stored one
\* fails with VersionNotStrictlyIncreasing and changes nothing; the version
\* stored for a name only ever strictly increases.
C7_Step ==
    /\ \A p \in InputPackages :
          (/\ UpdatePackage(p)
           /\ p.name \in DOMAIN packages
           /\ ~RefLess(from_string(packages[p.name].version), from_string(p.version)))
          => /\ last'.result = "VersionNotStrictlyIncreasing"
             /\ UNCHANGED <<packages, revision, disk, buf>>
    /\ (status = "open" /\ status' = "open") =>
          \A n \in DOMAIN packages \cap DOMAIN packages' :
              packages'[n].version # packages[n].version =>
                  RefLess(from_string(packages[n].version),
                          from_string(packages'[n].version))

\* C7: every update_package step to an equal or lesser version fails with
\* VersionNotStrictlyIncreasing, and stored versions only increase.
C7_MonotoneUpdate == [][C7_Step]_vars

\* C8: remove_package(name) succeeds exactly when name is in State and no
\* other package depends on it: the entry is deleted and, in mode ready, one
\* remove-package record appended; otherwise it fails with NotFound or
\* DependencyHeld and changes nothing.
C8_Step ==
    \A name \in Names :
        RemovePackage(name) =>
            IF name \notin DOMAIN packages
            THEN last'.result = "NotFound"
            ELSE IF \E m \in DOMAIN packages \ {name} : name \in Range(packages[m].depends)
            THEN last'.result = "DependencyHeld"
            ELSE /\ last'.result = "ok"
                 /\ packages' = [m \in DOMAIN packages \ {name} |-> packages[m]]
                 /\ mode = "ready" => Len(buf') = Len(buf) + 1

\* C8: every remove_package step succeeds or fails as the claim says.
C8_RemovePackage == [][C8_Step]_vars

\* The lines are those of a log whose last record lost trailing bytes: with
\* the bytes back, the log replays.
TruncatedLog(lines) ==
    /\ lines # <<>>
    /\ lines[Len(lines)].cut >= 1
    /\ \A i \in 1..Len(lines) : Len(lines[i].recs) = 1
    /\ Replay([lines EXCEPT ![Len(lines)].cut = 0]).res = "ok"

\* C9: opening a log whose last record lost trailing bytes succeeds and
\* gives the State of the records before it.
C9_TruncatedTailDropped ==
    (last.op = "open" /\ TruncatedLog(disk.lines)) =>
        /\ status = "open"
        /\ packages = Replay(SubSeq(disk.lines, 1, Len(disk.lines) - 1)).wal.packages
        /\ revision = Len(disk.lines) - 1

\* C10: once add_package or update_package has returned successfully on a
\* WAL in mode ready, nothing of the record is left in the userspace buffer,
\* and the file as the operating system holds it replays to the packages of
\* State.
C10_Durable ==
    (/\ status = "open"
     /\ mode = "ready"
     /\ last.op \in {"add_package", "update_package"}
     /\ last.result = "ok")
    => /\ buf = <<>>
       /\ Replay(disk.lines).res = "ok"
       /\ Replay(disk.lines).wal.packages = packages

\* The operations a record of the log can name (section 4.D).
KnownOps == {"add-package", "update-package", "remove-package"}

\* The file holds, on some line, a record whose op is none of the known ones.
HoldsUnknownOp(file) ==
    \E i \in 1..Len(file.lines) :
        \E j \in 1..Len(file.lines[i].recs) :
            file.lines[i].recs[j].op \notin KnownOps

\* C11: opening a file that holds a record whose op is none of add-package,
\* update-package and remove-package fails: no WAL object is returned, none
\* in mode 'ready', the record is not skipped.
C11_UnknownOpFatal ==
    (last.op = "open" /\ HoldsUnknownOp(disk)) =>
        (status = "failed" /\ last.result # "ok" /\ mode # "ready")

\* The bytes of the log once everything written to fp has reached the file.
LoggedSize(file, buffer) == LinesSize(WriteLines(file.lines, buffer))

C12_Step ==
    last'.op \in {"add_package", "update_package"} =>
        \A p \in InputPackages :
            /\ (AddPackage(p) /\ last'.result = "ok") =>
                   LoggedSize(disk', buf') =
                       LoggedSize(disk, buf) + RecordLen(Record("add-package", p)) + 1
            /\ (UpdatePackage(p) /\ last'.result = "ok") =>
                   LoggedSize(disk', buf') =
                       LoggedSize(disk, buf) + RecordLen(Record("update-package", p)) + 1

\* C12: every successful add_package and update_package makes the log one
\* record line longer: the JSON text of the record and its newline (so a new
\* WAL that adds a 1.0-1 and is closed is 8 + 113 + 1 bytes long).
C12_OneLinePerMutation == [][C12_Step]_vars

\* Index of the last occurrence of c in s, 0 when there is none.
LastIndexOf(s, c) ==
    IF \E i \in 1..Len(s) : s[i] = c
    THEN CHOOSE i \in 1..Len(s) : s[i] = c /\ \A j \in (i + 1)..Len(s) : s[j] # c
    ELSE 0

\* The strings section 4.A says are no versions: the empty string, and those
\* with a non-integer epoch, an empty upstream part, a non-integer release
\* or a release that is not positive (the release follows the last '-').
RefMalformed(s) ==
    LET ci == IndexOf(s, ":")
        epochStr == SubSeq(s, 1, ci - 1)
        rest == IF ci = 0 THEN s ELSE SubSeq(s, ci + 1, Len(s))
        di == LastIndexOf(rest, "-")
        upstream == SubSeq(rest, 1, di - 1)
        releaseStr == SubSeq(rest, di + 1, Len(rest))
    IN  \/ s = <<>>
        \/ ci # 0 /\ ~IsIntStr(epochStr)
        \/ di = 0
        \/ upstream = <<>>
        \/ ~IsIntStr(releaseStr)
        \/ IsIntStr(releaseStr) /\ IntOf(releaseStr) <= 0

\* The version parsed from the i-th string.
Parsed(i) == outcome.result[i]

\* Each of the strings is a version by section 4.A and has int components
\* only.
AllNumeric(I) == \A i \in I : ~RefMalformed(versions[i]) /\ Numeric(Parsed(i))

\* C13: a < b is True exactly when a is below b in the order of section 3:
\* the epoch decides first (absent below present, so 9.9.9-9 < 2:0.0.0-1),
\* then the components, then the release.
C13_LtIsReferenceOrder ==
    outcome.op = "compare" =>
        \A i, j \in Slots :
            AllNumeric({i, j}) =>
                outcome.lt[i][j] = Bool(RefLess(Parsed(i), Parsed(j)))

\* C14: the order of versions is transitive: a < b and b < c give a < c.
C14_Transitive ==
    outcome.op = "compare" =>
        \A i, j, k \in Slots :
            (/\ AllNumeric({i, j, k})
             /\ outcome.lt[i][j] = "True"
             /\ outcome.lt[j][k] = "True") => outcome.lt[i][k] = "True"

\* C15: of a < b, a == b and b < a exactly one is True, and a == b is True
\* exactly when epoch, components and release are the same.
C15_StrictTotalOrder ==
    outcome.op = "compare" =>
        \A i, j \in Slots :
            AllNumeric({i, j}) =>
                /\ Cardinality({c \in {"lt", "eq", "gt"} :
                       \/ c = "lt" /\ outcome.lt[i][j] = "True"
                       \/ c = "eq" /\ outcome.eq[i][j]
                       \/ c = "gt" /\ outcome.lt[j][i] = "True"}) = 1
                /\ outcome.eq[i][j] <=> Parsed(i) = Parsed(j)

\* C16: str(from_string(s)) is s for every string s that from_string accepts,
\* a string with the explicit epoch 0 included.
C16_RenderParse ==
    outcome.op = "str" =>
        \A i \in Slots : outcome.result[i] = versions[i]

\* The first position at which the components of v and w differ holds an int
\* in v and a str in w.
IntMeetsStr(v, w) ==
    LET m == IF Len(v.components) < Len(w.components)
             THEN Len(v.components) ELSE Len(w.components)
        D == {i \in 1..m : v.components[i] # w.components[i]}
    IN  /\ v.epoch = w.epoch
        /\ D # {}
        /\ v.components[MinOf(D)].int
        /\ ~w.components[MinOf(D)].int

\* C17: where an int component meets a str component the version with the
\* int is the lesser one and no error is raised (1.0-1 < 1.a-1), so that the
\* update of a package from 1.0-1 to 1.a-1 passes the check of versions.
C17_MixedTokens ==
    /\ outcome.op = "compare" =>
           \A i, j \in Slots :
               (/\ ~RefMalformed(versions[i])
                /\ ~RefMalformed(versions[j])
                /\ IntMeetsStr(Parsed(i), Parsed(j))) =>
                   /\ outcome.lt[i][j] = "True"
                   /\ outcome.lt[j][i] = "False"
    /\ outcome.op = "verify" =>
           LET prev == from_string(versions[1])
               next == from_string(versions[2])
           IN  (/\ ~RefMalformed(versions[1])
                /\ ~RefMalformed(versions[2])
                /\ prev.ok
                /\ next.ok
                /\ IntMeetsStr(prev, next)) =>
                   outcome.result = "ok"

\* C18: from_string raises on the empty string and on a string with an empty
\* upstream part, a non-integer release, a release below 1 or a non-integer
\* epoch; no Version it returns has a release below 1 or an epoch below 0.
C18_ParseRejects ==
    outcome.op = "from_string" =>
        \A i \in Slots :
            /\ RefMalformed(versions[i]) => ~Parsed(i).ok
            /\ Parsed(i).ok =>
                   /\ Parsed(i).release >= 1
                   /\ Parsed(i).epoch # NoEpoch => Parsed(i).epoch[1] >= 0

\* C19: subgraph_of, once entered, returns, whatever the graph and the
\* origin are, a graph with a cycle or a self-loop reachable from the origin
\* included.
C19_Terminates == (query = Running) ~> (query = Call("subgraph_of", "ok"))

\* The names a name of the graph points at.
Succ(g, n) == Range(Get(g.links, n))

\* The names reachable from the names of S (S included).
RECURSIVE Reach(_, _)
Reach(g, S) ==
    LET T == S \cup UNION {Succ(g, n) : n \in S}
    IN  IF T = S THEN S ELSE Reach(g, T)

\* No name of the graph is reachable from the names it points at.
Acyclic(g) == \A n \in DOMAIN g.links : n \notin Reach(g, Succ(g, n))

\* Length of the longest path from s to t in an acyclic graph, t reachable
\* from s.
RECURSIVE LongestPath(_, _, _)
LongestPath(g, s, t) ==
    IF s = t THEN 0
    ELSE LET via == {x \in Succ(g, s) : t \in Reach(g, {x})}
             lens == {LongestPath(g, x, t) : x \in via}
         IN  1 + (CHOOSE l \in lens : \A m \in lens : m <= l)

\* What subgraph_of returned on an acyclic graph: level 0 holds the origin
\* alone, every name reachable from the origin is in the level of its longest
\* path from the origin and in no other, no level is empty and no other name
\* is in a level.
LayersOfAcyclic ==
    (query = Call("subgraph_of", "ok") /\ Acyclic(effs)) =>
        /\ gens[1] = <<origin>>
        /\ \A n \in Reach(effs, {origin}) :
               \A v \in 1..Len(gens) :
                   n \in Range(gens[v]) <=> v = LongestPath(effs, origin, n) + 1
        /\ \A n \in Reach(effs, {origin}) : LongestPath(effs, origin, n) < Len(gens)
        /\ \A v \in 1..Len(gens) :
               /\ gens[v] # <<>>
               /\ Range(gens[v]) \subseteq Reach(effs, {origin})

\* The query of section 8, scenario 4: the graph is inverted and the layers
\* from c are c, then a and b, then root.
LayersOfScenario ==
    (graph = ScenarioGraph /\ origin = "c") =>
        /\ query.op = "inverse_edges" => query.result = "ok"
        /\ (query = Call("subgraph_of", "ok") /\ effs # graph) =>
               gens = <<<<"c">>, <<"a", "b">>, <<"root">>>>

\* C20: on an acyclic graph subgraph_of returns the levels of the longest
\* paths from the origin (level 0 the origin alone, every reachable name in
\* exactly one level, none empty, no unreachable name), and for the graph
\* root->[a,b], a->[c], b->[c], c->[] the layers of its inverse from c are
\* [c], [a, b], [root].
C20_Layers == LayersOfAcyclic /\ LayersOfScenario

\* How many times dst is listed in the links of src.
Edges(g, src, dst) ==
    Cardinality({i \in 1..Len(Get(g.links, src)) : Get(g.links, src)[i] = dst})

\* C21: inverse_edges returns for every graph, and the graph it returns has
\* the nodes of the graph it was given and its edges reversed: dst -> src as
\* many times as the graph has src -> dst.
C21_InverseEdges ==
    query.op = "inverse_edges" =>
        /\ query.result = "ok"
        /\ Range(effs.nodes) = Range(graph.nodes)
        /\ \A src, dst \in Range(NodeNames) :
               Edges(effs, dst, src) = Edges(graph, src, dst)

C22_Step ==
    (last'.op = "export_database" /\ last'.result # "ok") =>
        DOMAIN outdir' \subseteq DOMAIN outdir

\* C22: an export that fails, because the file of a package is missing or is
\* no package archive, leaves no archive in output_dir that was not there
\* before the call.
C22_NoPartialOutput == [][C22_Step]_vars

\* An export has just returned.
Exported == status = "open" /\ last = Call("export_database", "ok")

C23_Step ==
    (/\ last.op \in {"add_package", "update_package"}
     /\ last.result = "ok"
     /\ last' = Call("export_database", "ok")) =>
        DOMAIN outdir' # DOMAIN outdir

\* C23: the archive is named after the number of records applied so far: in
\* the session that created the WAL and added its packages one by one the
\* export writes {name}-r{number of packages}.db.tar.gz (r2 after two), and
\* an export that follows a successful mutation writes a file of a name no
\* export before it wrote.
C23_ArchiveName ==
    /\ [](Exported /\ created =>
             ArchiveName(RepoName, Cardinality(DOMAIN packages)) \in DOMAIN outdir)
    /\ [][C23_Step]_vars

\* The members of the archive that carry the name and the type.
MembersOf(archive, name, type) ==
    {i \in 1..Len(archive) : archive[i].name = name /\ archive[i].type = type}

\* C24: the archive an export wrote holds, for every package of State that
\* is not external, one directory {name}-{version} and one regular file
\* {name}-{version}/desc, and nothing for an external package (nor anything
\* else).
C24_ArchiveMembers ==
    Exported =>
        LET archive == outdir[ArchiveName(RepoName, revision)]
            own == {n \in DOMAIN packages : ~packages[n].external}
        IN  /\ \A n \in own :
                   /\ Cardinality(MembersOf(archive, Basename(packages[n]), "DIRTYPE")) = 1
                   /\ Cardinality(MembersOf(archive, Basename(packages[n]) \o <<"/desc">>,
                                            "REGTYPE")) = 1
            /\ Len(archive) = 2 * Cardinality(own)

\* An export returned in a session that holds an external package and one
\* that is not external.
C24_Witness ==
    /\ Exported
    /\ \E n, m \in DOMAIN packages : packages[n].external /\ ~packages[m].external
    /\ Len(outdir[ArchiveName(RepoName, revision)]) = 2

\* The lines hold an add-package record of the name and, on a later line, a
\* remove-package record of it with no record of the name behind it.
AddedThenRemoved(lines, name) ==
    \E i, j \in 1..Len(lines) :
        /\ i < j
        /\ lines[i].recs[1].op = "add-package"
        /\ "name" \in DOMAIN lines[i].recs[1].args
        /\ lines[i].recs[1].args.name = name
        /\ lines[j].recs[1] = Record("remove-package", [name |-> name])
        /\ \A k \in j + 1..Len(lines) :
               ~("name" \in DOMAIN lines[k].recs[1].args
                 /\ lines[k].recs[1].args.name = name)

\* C25: a remove-package record is applied in replay: once a file that holds
\* add-package a and then remove-package a has been opened, State holds no
\* package a (get("a") is absent).
C25_RemovalReplayed ==
    \A name \in Names :
        (last = Call("open", "ok") /\ AddedThenRemoved(disk.lines, name))
            => name \notin DOMAIN packages

\* Every process holds the file open.
BothOpen == \A i \in Procs : procs[i].status = "open"

\* C26: while one WAL object holds the file open, a second WAL.open on the
\* same file fails, so no two open WAL objects append records to the same
\* file.  As a step: an open that succeeds leaves no other process open, and
\* no flush of records happens while two are open.
C26_Step ==
    /\ \A i \in Procs :
           (procs[i].status # "open" /\ procs'[i].status = "open")
               => \A j \in Procs \ {i} : procs[j].status # "open"
    /\ (disk'.lines # disk.lines) => ~BothOpen

C26_ExclusiveOwner == [][C26_Step]_vars

\* The sequences have the same length and differ in exactly one place.
OneByteApart(u, v) ==
    /\ Len(u) = Len(v)
    /\ Cardinality({k \in 1..Len(u) : u[k] # v[k]}) = 1

\* Record b is record a with one byte altered inside the string of its name
\* (the names are one character long) or of its version.
AlteredRecord(a, b) ==
    /\ a.op = b.op
    /\ DOMAIN a.args = PackageFields
    /\ DOMAIN b.args = PackageFields
    /\ a.args.depends = b.args.depends
    /\ a.args.external = b.args.external
    /\ a.args.arch = b.args.arch
    /\ \/ a.args.name # b.args.name /\ a.args.version = b.args.version
       \/ a.args.name = b.args.name /\ OneByteApart(a.args.version, b.args.version)

\* The lines are those of a file that WAL.open accepts, with one byte of one
\* record altered.
AlteredLog(lines) ==
    \E file \in ReplayLogs :
        /\ play(NewWAL, file.lines).res = "ok"
        /\ Len(file.lines) = Len(lines)
        /\ \E i \in 1..Len(lines) :
               /\ AlteredRecord(file.lines[i].recs[1], lines[i].recs[1])
               /\ \A k \in 1..Len(lines) : k # i => lines[k] = file.lines[k]

\* C27: a valid file in which one byte in the middle of a record was altered,
\* a byte inside the string of a name or a version included, is not accepted:
\* its replay fails.
C27_AlteredByteFatal ==
    (last.op = "open" /\ AlteredLog(disk.lines)) => last.result # "ok"

\* The first 8 bytes of the file are not the signature.
WrongSignature(file) == file.exists /\ Read(file.header, 8) # MAGIC

\* C28: WAL.open on an existing file whose first 8 bytes are not the
\* signature, a file shorter than 8 bytes included, fails before a record is
\* read or applied (no replay was started, State is empty), and the bytes of
\* the file stay as they were.
C28_Step ==
    (WrongSignature(disk) /\ last'.op = "open")
        => /\ last'.result # "ok"
           /\ status' = "failed"
           /\ mode' = NewWAL.mode
           /\ revision' = NewWAL.revision
           /\ packages' = NoPackages
           /\ disk' = disk

C28_WrongSignatureFatal ==
    /\ [][C28_Step]_vars
    /\ [](WrongSignature(disk) => status # "open" /\ packages = NoPackages)

C28_Witness ==
    /\ WrongSignature(disk)
    /\ disk.lines # <<>>
    /\ last.op = "open"
    /\ status = "failed"

\* The same for a file shorter than 8 bytes.
C28_WitnessShort ==
    /\ WrongSignature(disk)
    /\ Len(disk.header) < Len(MAGIC)
    /\ last.op = "open"
    /\ status = "failed"

\* C29: every package held in State has a version that Version.from_string
\* accepts: add_package and update_package, called or replayed, store no
\* package with an unparseable version (so no later update_package fails on
\* parsing the stored version).
C29_ParseableVersions ==
    \A name \in DOMAIN packages : from_string(packages[name].version).ok

\* The record with the members of args that are no fields of Package left out.
Strip(record) ==
    IF record.op \in {"add-package", "update-package"}
    THEN Record(record.op,
                [f \in DOMAIN record.args \cap PackageFields |-> record.args[f]])
    ELSE record

\* A record of a package on some line lacks a required member of args.
LacksRequired(lines) ==
    \E i \in 1..Len(lines) :
        /\ lines[i].recs[1].op \in {"add-package", "update-package"}
        /\ ~(RequiredFields \subseteq DOMAIN lines[i].recs[1].args)

\* C30: in replay, members of args other than name, version, depends,
\* external and arch are ignored: the file is opened as the file without them
\* is; and a record whose args lack name, version or depends makes the open
\* fail.
C30_Decoding ==
    last.op = "open" =>
        LET stripped == [i \in DOMAIN disk.lines |-> Line(Strip(disk.lines[i].recs[1]))]
            r == play(NewWAL, stripped)
        IN  /\ r.res = "ok" => (last.result = "ok" /\ packages = r.wal.packages)
            /\ LacksRequired(disk.lines) => last.result # "ok"

\* Missing required members alone: they do make the open fail.
C30_MissingFatal ==
    (last.op = "open" /\ LacksRequired(disk.lines)) => last.result # "ok"

\* C31: from the moment WAL.open has returned, until close and after it, the
\* first 8 bytes of the file are the signature; no add, update, replay, flush
\* or close changes the first bytes of a file.
C31_Step == disk.exists => disk'.header = disk.header

C31_SignatureKept ==
    /\ [](status \in {"open", "closed"} => Read(disk.header, 8) = MAGIC)
    /\ [][C31_Step]_vars

C31_Witness ==
    /\ status = "closed"
    /\ last = Call("close", "ok")
    /\ Len(disk.lines) = 2
    /\ Read(disk.header, 8) = MAGIC

\* The keys of the stanzas of a desc file in their order (section on the
\* export format).
DescKeys ==
    <<"FILENAME", "NAME", "BASE", "VERSION", "DESC", "CSIZE", "ISIZE", "SHA256SUM",
      "URL", "LICENSE", "ARCH", "BUILDDATE", "PACKAGER", "DEPENDS", "MAKEDEPENDS">>

\* A line of the form %KEY%.
IsKeyLine(line) == Len(line) = 3 /\ line[1] = "%" /\ line[3] = "%"

\* Number of value lines of the stanza of a key: one for a scalar, one per
\* element for a list.
ValueLines(pkg, key) ==
    IF key = "DEPENDS" THEN Len(pkg.depends)
    ELSE IF key = "MAKEDEPENDS" THEN 0
    ELSE 1

\* Line of data at which the stanza of the k-th key starts.
RECURSIVE StanzaStart(_, _)
StanzaStart(pkg, k) ==
    IF k = 1 THEN 1
    ELSE StanzaStart(pkg, k - 1) + ValueLines(pkg, DescKeys[k - 1]) + 2

\* data is a desc file of the package: the stanzas of DescKeys in their
\* order and nothing else, each a %KEY% line, its value lines, none of them
\* blank or a key line, and a blank line; the first value is the file name,
\* the values of DEPENDS are the dependencies.
WellFormedDesc(pkg, data) ==
    /\ Len(data) = StanzaStart(pkg, Len(DescKeys) + 1) - 1
    /\ \A k \in 1..Len(DescKeys) :
           LET at == StanzaStart(pkg, k)
               n == ValueLines(pkg, DescKeys[k])
           IN  /\ data[at] = <<"%", DescKeys[k], "%">>
               /\ \A i \in 1..n : data[at + i] # <<>> /\ ~IsKeyLine(data[at + i])
               /\ data[at + n + 1] = <<>>
    /\ data[2] = Filename(pkg)
    /\ LET at == StanzaStart(pkg, 14)
       IN  \A i \in 1..Len(pkg.depends) : data[at + i] = <<pkg.depends[i]>>

\* C32: the desc file of every exported package, whatever was written to the
\* archive before it, is the fifteen stanzas FILENAME .. MAKEDEPENDS in that
\* order, each a %KEY% line, one line per value and a blank line; its first
\* value is {name}-{version}-{arch}.pkg.tar.zst and it holds no line of the
\* desc of a package written before.
C32_DescStanzas ==
    Exported =>
        LET archive == outdir[ArchiveName(RepoName, revision)]
        IN  \A n \in DOMAIN packages :
                \A i \in MembersOf(archive, Basename(packages[n]) \o <<"/desc">>, "REGTYPE") :
                    WellFormedDesc(packages[n], archive[i].data)

\* An export wrote the desc of a package with a dependency and, after it, the
\* shorter desc of a package with none.
C32_Witness ==
    /\ Exported
    /\ LET archive == outdir[ArchiveName(RepoName, revision)]
       IN  /\ Len(archive) = 4
           /\ Len(archive[2].data) > Len(archive[4].data)

\* The comparators of a dependency token.
Comparators == {<<"=", "=">>, <<">", "=">>, <<"<", "=">>, <<">">>, <<"<">>}

\* The comparator stands in the token from place i on.
Occurs(token, i, cmp) ==
    /\ i + Len(cmp) - 1 <= Len(token)
    /\ SubSeq(token, i, i + Len(cmp) - 1) = cmp

\* The token cut at its first comparator.
RefCut(token) ==
    LET at == {i \in 1..Len(token) : \E cmp \in Comparators : Occurs(token, i, cmp)}
    IN  IF at = {} THEN token
        ELSE SubSeq(token, 1, (CHOOSE i \in at : \A j \in at : i <= j) - 1)

\* The graph is built.
Built == build.pc = "done"

\* C33: the links of every node built from a recipe are its depends in
\* their order, each token cut at its first comparator, duplicates kept;
\* no name is resolved twice; and the loop over the worklist ends for every
\* repository, mutually dependent recipes included.
C33_GraphBuild ==
    /\ [](Built =>
            \A name \in DOMAIN build.repo :
                /\ name \in DOMAIN build.nodes
                /\ build.nodes[name] = "PackageInfo"
                /\ build.links[name]
                       = [i \in DOMAIN build.repo[name] |-> RefCut(build.repo[name][i])])
    /\ [](\A i, j \in DOMAIN build.resolved :
               build.resolved[i] = build.resolved[j] => i = j)
    /\ <>Built

\* The graph of two recipes that depend on each other, one of them twice on
\* the other and by a token with a comparator.
C33_Witness ==
    /\ Built
    /\ DOMAIN build.repo = {<<"a">>, <<"b">>}
    /\ build.repo[<<"a">>] = <<(<<"b", ">", "=", "1">>), (<<"b", ">", "=", "1">>)>>
    /\ build.repo[<<"b">>] = <<(<<"a">>)>>
    /\ build.links[<<"a">>] = <<(<<"b">>), (<<"b">>)>>

\* The version section 4.A reads from a string that is one: the epoch is the
\* integer before the first ':' (none without a ':'), the release the integer
\* behind the last '-', the upstream the text between them, split on '.'
\* into components, each an integer when it reads as one and a string
\* otherwise.
RefParse(s) ==
    LET ci == IndexOf(s, ":")
        rest == IF ci = 0 THEN s ELSE SubSeq(s, ci + 1, Len(s))
        di == LastIndexOf(rest, "-")
        parts == SplitOn(SubSeq(rest, 1, di - 1), ".")
    IN  [epoch |-> IF ci = 0 THEN NoEpoch ELSE <<IntOf(SubSeq(s, 1, ci - 1))>>,
         components |-> [k \in 1..Len(parts) |->
                            IF IsIntStr(parts[k])
                            THEN [int |-> TRUE, n |-> IntOf(parts[k]), s |-> <<>>]
                            ELSE [int |-> FALSE, n |-> 0, s |-> parts[k]]],
         release |-> IntOf(SubSeq(rest, di + 1, Len(rest)))]

\* C34: from_string of a version string gives the epoch before the first ':'
\* (None without one), the release behind the last '-', and the components
\* of the upstream between them, ints where they read as ints ("0.0.0-1":
\* components (0, 0, 0), release 1, no epoch; "1:0.0.0-1": epoch 1).
C34_ParseResult ==
    outcome.op = "from_string" =>
        \A i \in Slots :
            ~RefMalformed(versions[i]) =>
                /\ Parsed(i).ok
                /\ Parsed(i).epoch = RefParse(versions[i]).epoch
                /\ Parsed(i).components = RefParse(versions[i]).components
                /\ Parsed(i).release = RefParse(versions[i]).release

\* The same for the strings with one '-'.
C34_OneHyphen ==
    outcome.op = "from_string" =>
        \A i \in Slots :
            (/\ ~RefMalformed(versions[i])
             /\ Cardinality({k \in 1..Len(versions[i]) : versions[i][k] = "-"}) = 1) =>
                /\ Parsed(i).ok
                /\ Parsed(i).epoch = RefParse(versions[i]).epoch
                /\ Parsed(i).components = RefParse(versions[i]).components
                /\ Parsed(i).release = RefParse(versions[i]).release

\* C35: replay logs nothing: a WAL.open of an existing file that succeeds
\* leaves the file as it was, with nothing written to fp that a flush would
\* add to it, and the WAL object in mode ready; the mode of the object does
\* not go back from ready.
C35_Step ==
    /\ (disk.exists /\ status # "open" /\ last' = Call("open", "ok"))
           => /\ disk' = disk
              /\ WriteLines(disk'.lines, buf') = disk.lines
              /\ mode' = "ready"
    /\ (status = "open" /\ mode = "ready" /\ status' \in {"open", "closed"})
           => mode' = "ready"

C35_ReplayLogsNothing == [][C35_Step]_vars

\* An open has replayed a record of the file.
C35_Witness ==
    /\ last = Call("open", "ok")
    /\ created = FALSE
    /\ disk.lines # <<>>
    /\ DOMAIN packages # {}
    /\ mode = "ready"

\* The records of the lines, one after the other.
RECURSIVE Recs(_)
Recs(lines) == IF lines = <<>> THEN <<>> ELSE Head(lines).recs \o Recs(Tail(lines))

\* The records of the file followed by those written to fp since.
Logged(file, buffer) == Recs(WriteLines(file.lines, buffer))

IsPrefix(u, v) == Len(u) <= Len(v) /\ SubSeq(v, 1, Len(u)) = u

\* The name of the record an operation logs.
OpName(op) == IF op = "add_package" THEN "add-package" ELSE "update-package"

\* The packages the records give when they are applied in their order.
RECURSIVE FoldRecords(_, _)
FoldRecords(pkgs, records) ==
    IF records = <<>> THEN pkgs
    ELSE LET p == Head(records).args
         IN  FoldRecords([n \in DOMAIN pkgs \cup {p.name} |->
                             IF n = p.name THEN p ELSE pkgs[n]],
                         Tail(records))

\* An operation that succeeded is logged behind all that was logged before.
C36_Logs ==
    (last'.op \in {"add_package", "update_package"} /\ last'.result = "ok")
        => \E n \in DOMAIN packages' :
               Logged(disk', buf')
                   = Append(Logged(disk, buf), Record(OpName(last'.op), packages'[n]))

\* What the file holds stays, what is added to it comes behind it in the
\* order it was written, and an open applies the records in their order.
C36_Keeps ==
    /\ disk.exists
           => /\ disk'.header = disk.header
              /\ IsPrefix(Recs(disk.lines), Recs(disk'.lines))
    /\ last'.op \in {"flush", "close"}
           => Recs(disk'.lines) = Recs(disk.lines) \o buf
    /\ (disk.exists /\ last' = Call("open", "ok"))
           => packages' = FoldRecords(NoPackages, Recs(disk.lines))

\* C36: the log is append-only and in the order of the calls: no operation
\* changes or removes what the file holds, the file of before an open
\* included; the records of the operations that succeeded are in the file in
\* the order of the calls; an open applies the records in the order of the
\* file.
C36_AppendOnly == [][C36_Logs /\ C36_Keeps]_vars

\* The same without the records of the session that created the file.
C36_ExistingFile == [][(~created' => C36_Logs) /\ C36_Keeps]_vars

\* The last operation changed State and failed in its append.
AppendFailed == last.op \in Mutations /\ last.result = ClosedFile

\* After an append that failed no operation on the WAL object changes State.
C37_Step == (AppendFailed /\ last'.op \in Mutations) => packages' = packages

\* C37: State and log do not diverge while operations are accepted: once
\* the append of an operation has failed behind the change of State (a write
\* after close), no later add_package or update_package on the WAL object is
\* carried out.
C37_NoDivergence == [][C37_Step]_vars

\* The other half: while the WAL object is open, the packages of State are
\* those the replay of the records written gives.
C37_OpenAgrees ==
    status = "open" =>
        packages = Replay(WriteLines(disk.lines, buf)).wal.packages

\* The same for the sessions on a file that was there at the open.
C37_ReadyAgrees ==
    (status = "open" /\ mode = "ready") =>
        packages = Replay(WriteLines(disk.lines, buf)).wal.packages

\* The record breaks its precondition on the packages pkgs: an add-package
\* of a name that is present, an update-package of a name that is absent or
\* to a version that is not strictly greater in the order of section 3,
\* either of them with a dependency that is absent.
RefBreaks(pkgs, record) ==
    LET p == record.args
    IN  \/ \E d \in Range(p.depends) : d \notin DOMAIN pkgs
        \/ record.op = "add-package" /\ p.name \in DOMAIN pkgs
        \/ record.op = "update-package" /\ p.name \notin DOMAIN pkgs
        \/ /\ record.op = "update-package"
           /\ p.name \in DOMAIN pkgs
           /\ ~RefLess(RefParse(pkgs[p.name].version), RefParse(p.version))

\* Some record of lines, from line i on, breaks its precondition on what
\* the records before it have made of pkgs.
RECURSIVE Violating(_, _, _)
Violating(pkgs, lines, i) ==
    IF i > Len(lines) THEN FALSE
    ELSE LET record == lines[i].recs[1]
             p == record.args
         IN  \/ RefBreaks(pkgs, record)
             \/ Violating([n \in DOMAIN pkgs \cup {p.name} |->
                              IF n = p.name THEN p ELSE pkgs[n]], lines, i + 1)

C38_Step ==
    (OpenExisting /\ Violating(<<>>, disk.lines, 1)) =>
        /\ last'.result # "ok"
        /\ status' # "open"
        /\ mode' # "ready"
        /\ disk' = disk

\* C38: a record that breaks its own precondition where it stands in the
\* log (add-package of a name already present, add or update with a
\* dependency not yet present, update-package of an absent name or to a
\* version not strictly greater) makes the replay fail: WAL.open raises, the
\* mode does not become ready, and the file is as it was.
C38_ViolationFatal ==
    /\ [][C38_Step]_vars
    /\ [](mode = "ready" => ~Violating(<<>>, disk.lines, 1))

\* The open of a log whose second record updates the package of the first
\* to the version it has, has failed in the check of versions.
C38_Witness ==
    /\ last = Call("open", "VersionNotStrictlyIncreasing")
    /\ Len(disk.lines) = 2
    /\ disk.lines[1].recs[1].op = "add-package"
    /\ disk.lines[2].recs[1].op = "update-package"
    /\ disk.lines[2].recs[1].args = disk.lines[1].recs[1].args
    /\ mode = "replaying"

\* The graph derived from State: every package points at its dependencies.
StateGraph ==
    [nodes |-> <<>>,
     links |-> [n \in DOMAIN packages |-> packages[n].depends]]

\* C39: after any sequence of successful add_package and update_package
\* operations no package of State depends on itself, directly or through
\* other packages.
C39_AcyclicState == Acyclic(StateGraph)

\* A command has run up to the operation it was to try.
Tried == exited # <<>> /\ last.op \in Mutations

\* C40: the commands add-package, update-package and remove-package end
\* with exit code 0 only when the WAL operation succeeded; an operation that
\* fails a precondition reaches the caller of the command as an exit code
\* other than 0.
C40_ExitCode == (Tried /\ exited = <<0>>) => last.result = "ok"

\* The same for add-package and update-package, the operations WAL has.
C40_AddUpdate ==
    (Tried /\ exited = <<0>> /\ last.op # "remove_package") =>
        last.result = "ok"

====
